---- MODULE Spec2Model ----
(***************************************************************************)
(* Route analysis and three-route selection of BikeSafeMap.jsx.            *)
(*                                                                         *)
(* Units.  JavaScript numbers are modelled by integers in fixed units:     *)
(*   longitude / latitude   micro-degrees (1e-6 deg)                       *)
(*   elevation              decimetres                                     *)
(*   distances              decimetres (summary.distance, haversine)       *)
(*   suitability            tenths (0.3 is 3, 7 is 70)                     *)
(*   grade (avgPct)         hundredths of a percent                        *)
(*   riskScore              weighted decimetres per decimetre, times 1000  *)
(*                          (the source's "per km" value)                  *)
(* Array indices (sIndex, eIndex, cuts) are the source's 0-based indices;  *)
(* a TLA+ sequence holding a JavaScript array a has a[i] at position i+1.  *)
(***************************************************************************)
EXTENDS Integers, Sequences, FiniteSets, TLC

VARIABLES
    pc,        \* position of fetchThreeRoutes: idle, shortest, pools, done, failed
    req,       \* per fetchORSWithAlts call: the state of its orsPost loop
    sel,       \* fetchThreeRoutes: its locals once the pools have settled (shortest, merged, candidates, safest, scenic)
    out,       \* fetchThreeRoutes: the returned list
    err,       \* fetchThreeRoutes: the error thrown, or "none"
    env,       \* the build environment: whether VITE_ORS_KEY is set
    call,      \* pure-function harness: the function applied and its arguments
    ret        \* pure-function harness: the value returned

vars == <<pc, req, sel, out, err, env, call, ret>>

----------------------------------------------------------------------------
(* Bounds of the model.                                                    *)

MaxPts == 3        \* longest path drawn for the pure-function checks
NRoutes == 4       \* number of routes the provider picks its answers from
MaxInFlight == 2   \* most invocations of route() awaiting their routes at once

----------------------------------------------------------------------------
(* Program constants.                                                      *)

STEEP_MED_PCT == 5
STEEP_HIGH_PCT == 8
\* ROUGH_SURFACES without the code 10
RoughWithoutCode10 == {2, 8, 11, 12, 15, 17, 18}

ROUGH_SURFACES == {2, 8, 10, 11, 12, 15, 17, 18}
SAMPLES == 12            \* routeSig(feature, samples = 12)
MAX_ATTEMPTS == 3        \* orsPost: for (attempt = 0; attempt < 3; ...)
NO_SEGMENTS_SCORE == 1000000000   \* riskScore: 1e9

----------------------------------------------------------------------------
(* Generic helpers standing for JavaScript built-ins.                      *)

Min(a, b) == IF a <= b THEN a ELSE b
Max(a, b) == IF a >= b THEN a ELSE b
Abs(a) == IF a < 0 THEN -a ELSE a

Has(r, k) == k \in DOMAIN r

\* { ...r, [k]: v }
With(r, k, v) == [x \in (DOMAIN r) \cup {k} |-> IF x = k THEN v ELSE r[x]]

\* const o = { ...r }; delete o[k]
Without(r, k) == [x \in (DOMAIN r) \ {k} |-> r[x]]

\* Array.prototype.filter
Filter(s, Keep(_)) ==
    LET F[i \in 0..Len(s)] ==
            IF i = 0 THEN <<>>
            ELSE IF Keep(s[i]) THEN Append(F[i - 1], s[i]) ELSE F[i - 1]
    IN  F[Len(s)]

\* Array.prototype.some
Some(s, P(_)) == \E i \in 1..Len(s) : P(s[i])

\* Array.prototype.flat on an array of arrays
RECURSIVE Flat(_)
Flat(ss) == IF ss = <<>> THEN <<>> ELSE Head(ss) \o Flat(Tail(ss))

\* Array.prototype.sort(cmp): stable; Cmp(a, b) is the comparator's number.
\* x is placed after the last element that does not compare greater than
\* it, so equal elements keep their input order.
InsertSorted(x, t, Cmp(_, _)) ==
    LET ks == {k \in 1..Len(t) : Cmp(t[k], x) <= 0}
        p  == IF ks = {} THEN 0 ELSE CHOOSE k \in ks : \A j \in ks : j <= k
    IN  SubSeq(t, 1, p) \o <<x>> \o SubSeq(t, p + 1, Len(t))

SortCmp(s, Cmp(_, _)) ==
    LET S[i \in 0..Len(s)] ==
            IF i = 0 THEN <<>> ELSE InsertSorted(s[i], S[i - 1], Cmp)
    IN  S[Len(s)]

\* Array.from(set).sort((a,b) => a-b)
RECURSIVE SortedSeq(_)
SortedSeq(S) ==
    IF S = {} THEN <<>>
    ELSE LET m == CHOOSE x \in S : \A y \in S : x <= y
         IN  <<m>> \o SortedSeq(S \ {m})

\* floor(sqrt(n)) for n >= 0 by Newton's iteration from a start x * x >= n
RECURSIVE IsqrtFrom(_, _)
IsqrtFrom(n, x) ==
    IF x = 0 THEN 0
    ELSE LET y == (x + n \div x) \div 2
         IN  IF y >= x THEN x ELSE IsqrtFrom(n, y)

\* floor(sqrt(a^2 + b^2)), Math.sqrt on the model's integers
Hypot(a, b) == IsqrtFrom(a * a + b * b, Abs(a) + Abs(b))

\* Number.prototype.toFixed(5) followed by unary +, on micro-degrees:
\* the nearest multiple of 1e-5 deg, ties to the larger magnitude; the
\* result counts 1e-5 deg.  (-0 and 0 serialise alike in JSON.)
ToFixed5(x) == IF x < 0 THEN -((-x + 5) \div 10) ELSE (x + 5) \div 10

\* Math.round on decimetres, giving whole metres (ties towards +Infinity)
MathRound(d) == (d + 5) \div 10

\* toFixed(1) of a value kept in hundredths, giving tenths
ToFixed1(h) == (h + 5) \div 10

----------------------------------------------------------------------------
(* Values.  A point is <<lng, lat>> or <<lng, lat, ele>>.  A feature is    *)
(* [geometry |-> [coordinates |-> points], properties |-> props] where     *)
(* props may hold summary, extras, _preference, _label, _tag.  An          *)
(* attribute range is <<a, b, v>>.  null is the record NullValue (for      *)
(* objects) or the number NULL (for surface and way-type codes).           *)

NullValue == [null |-> TRUE]
IsNull(v) == Has(v, "null")
NULL == -1

Coordinates(feature) ==
    IF Has(feature, "geometry") /\ Has(feature.geometry, "coordinates")
    THEN feature.geometry.coordinates ELSE <<>>

Properties(feature) ==
    IF Has(feature, "properties") THEN feature.properties ELSE << >>

\* const [x, y, z = 0] = p
Ele(p) == IF Len(p) >= 3 THEN p[3] ELSE 0

----------------------------------------------------------------------------
(* Geometry utilities.                                                     *)

\* Decimetres per micro-degree of arc, times 10000: R * pi/180 * 1e-6 * 10
\* with R = 6371000.
DM_PER_UDEG_E4 == 11119

\* haversineMeters: the great-circle distance of two points.  The model's
\* points lie within 0.05 degrees of (0, 0), where the haversine distance
\* is R * sqrt(dLat^2 + dLon^2) (in radians) to nine digits.
haversineMeters(a, b) ==
    LET dLat == b.lat - a.lat
        dLon == b.lng - a.lng
    IN  (Hypot(dLat, dLon) * DM_PER_UDEG_E4) \div 10000

\* avgGrade without the test of dSum: 0/0 is NaN, which NULL stands for
avgGradeUnguarded(seg) ==
    LET D(i) == haversineMeters([lng |-> seg[i - 1][1], lat |-> seg[i - 1][2]],
                                [lng |-> seg[i][1], lat |-> seg[i][2]])
        sums[i \in 1..Max(1, Len(seg))] ==
            IF i = 1 THEN <<0, 0>>
            ELSE LET d == D(i)
                     prev == sums[i - 1]
                 IN  IF d > 0
                     THEN <<prev[1] + d,
                            prev[2] + Abs(Ele(seg[i]) - Ele(seg[i - 1]))>>
                     ELSE prev
        last == sums[Max(1, Len(seg))]
    IN  IF last[1] # 0 THEN (last[2] * 10000) \div last[1] ELSE NULL

\* avgGrade(seg): the mean absolute grade of a run of points, in
\* hundredths of a percent; 0 when the run has no horizontal length.
avgGrade(seg) ==
    LET D(i) == haversineMeters([lng |-> seg[i - 1][1], lat |-> seg[i - 1][2]],
                                [lng |-> seg[i][1], lat |-> seg[i][2]])
        \* sums[i] = <<dSum, dzSum>> after the loop's turn for point i
        sums[i \in 1..Max(1, Len(seg))] ==
            IF i = 1 THEN <<0, 0>>
            ELSE LET d == D(i)
                     prev == sums[i - 1]
                 IN  IF d > 0
                     THEN <<prev[1] + d,
                            prev[2] + Abs(Ele(seg[i]) - Ele(seg[i - 1]))>>
                     ELSE prev
        last == sums[Max(1, Len(seg))]
        dSum == last[1]
        dzSum == last[2]
    IN  IF dSum # 0 THEN (dzSum * 10000) \div dSum ELSE 0

----------------------------------------------------------------------------
(* Risk classifier and segmentation engine.                                *)

\* valueAt(i, ranges, fallback): the value of the first range holding i
valueAt(i, ranges, fallback) ==
    LET hits == {k \in 1..Len(ranges) : i >= ranges[k][1] /\ i <= ranges[k][2]}
    IN  IF hits = {} THEN fallback
        ELSE ranges[CHOOSE k \in hits : \A j \in hits : k <= j][3]

\* const s = suit > 1 ? suit : suit * 10   (tenths)
NormSuit(suit) == IF suit > 10 THEN suit ELSE suit * 10

\* gradeRisk({suit, surf, avgPct}) -> {risk, reasons}
gradeRisk(a) ==
    LET s == NormSuit(a.suit)
        rough == a.surf \in ROUGH_SURFACES
        r1 == IF s <= 40 THEN << <<"Lower suitability score", s>> >>
              ELSE IF s <= 70 THEN << <<"Moderate suitability", s>> >>
              ELSE <<>>
        r2 == IF a.avgPct >= STEEP_HIGH_PCT * 100
                  THEN << <<"Steep grade", ToFixed1(a.avgPct)>> >>
              ELSE IF a.avgPct >= STEEP_MED_PCT * 100
                  THEN << <<"Noticeable grade", ToFixed1(a.avgPct)>> >>
              ELSE <<>>
        r3 == IF rough THEN << <<"Unpaved / rough surface", 0>> >> ELSE <<>>
        risk == IF s <= 40 THEN "high"
                ELSE IF s <= 70 \/ a.avgPct >= STEEP_HIGH_PCT * 100 \/ rough
                     THEN "med" ELSE "low"
    IN  [risk |-> risk, reasons |-> r1 \o r2 \o r3]

\* feature.properties.extras[kind].values, or []
ExtraValues(feature, kind) ==
    LET p == Properties(feature)
    IN  IF Has(p, "extras") /\ Has(p.extras, kind) /\ Has(p.extras[kind], "values")
        THEN p.extras[kind].values ELSE <<>>

\* The cut indices without the two ends of the path
CutsOfRangesOnly(feature) ==
    LET all == ExtraValues(feature, "suitability") \o ExtraValues(feature, "waytype")
               \o ExtraValues(feature, "surface")
    IN  SortedSeq({all[k][1] : k \in 1..Len(all)}
                  \cup {all[k][2] : k \in 1..Len(all)})

\* The sorted cut indices of toRiskFC
Cuts(feature) ==
    LET coords == Coordinates(feature)
        all == ExtraValues(feature, "suitability") \o ExtraValues(feature, "waytype")
               \o ExtraValues(feature, "surface")
    IN  SortedSeq({0, Len(coords) - 1}
                  \cup {all[k][1] : k \in 1..Len(all)}
                  \cup {all[k][2] : k \in 1..Len(all)})

\* SegEnd without the look at the next cut: e = s + 1
SegEndNextPoint(s, nxt) == s + 1

\* The end index of the interval starting at cut s and followed by cut nxt
SegEnd(s, nxt) == Max(s + 1, nxt)

\* coords.slice(s, e + 1) on 0-based s, e
Slice(coords, s, e) == SubSeq(coords, Max(s, 0) + 1, Min(e + 1, Len(coords)))

\* toRiskFC(feature): the FeatureCollection of risk segments, or null
toRiskFC(feature) ==
    LET coords == Coordinates(feature)
        suitVals == ExtraValues(feature, "suitability")
        wayVals == ExtraValues(feature, "waytype")
        surfVals == ExtraValues(feature, "surface")
        idx == Cuts(feature)
        \* one turn of the loop, for the interval s..e
        Seg(rid, s, e) ==
            LET m == (s + e) \div 2
                suit == valueAt(m, suitVals, 70)
                way == valueAt(m, wayVals, NULL)
                surf == valueAt(m, surfVals, NULL)
                seg == Slice(coords, s, e)
                avgPct == avgGrade(seg)
                g == gradeRisk([suit |-> suit, surf |-> surf, avgPct |-> avgPct])
            IN  [type |-> "Feature",
                 properties |-> [rid |-> rid, risk |-> g.risk, suit |-> suit,
                                 way |-> way, sIndex |-> s, eIndex |-> e,
                                 gradePct |-> ToFixed1(avgPct), why |-> g.reasons],
                 geometry |-> [type |-> "LineString", coordinates |-> seg]]
    IN  IF Len(coords) < 2 THEN NullValue
        ELSE [type |-> "FeatureCollection",
              features |-> [i \in 1..(Len(idx) - 1) |->
                               Seg(i - 1, idx[i], SegEnd(idx[i], idx[i + 1]))]]

\* getInsights whose distance series holds the length of each step
getInsightsPerStep(feature) ==
    LET coords == Coordinates(feature)
        n == Len(coords)
        D(i) == haversineMeters([lng |-> coords[i - 1][1], lat |-> coords[i - 1][2]],
                                [lng |-> coords[i][1], lat |-> coords[i][2]])
        dz(i) == Ele(coords[i]) - Ele(coords[i - 1])
        total[i \in 1..Max(1, n)] == IF i = 1 THEN 0 ELSE total[i - 1] + D(i)
        ascent[i \in 1..Max(1, n)] ==
            IF i = 1 THEN 0 ELSE ascent[i - 1] + (IF dz(i) > 0 THEN dz(i) ELSE 0)
        descent[i \in 1..Max(1, n)] ==
            IF i = 1 THEN 0 ELSE descent[i - 1] + (IF dz(i) > 0 THEN 0 ELSE -dz(i))
    IN  IF n < 2 THEN NullValue
        ELSE [distKm |-> [i \in 1..n |-> IF i = 1 THEN 0 ELSE D(i)],
              elevM |-> [i \in 1..n |-> Ele(coords[i])],
              totalDistM |-> total[n],
              ascentM |-> ascent[n],
              descentM |-> descent[n]]

\* getInsights whose ascent counts the descents too
getInsightsAbsAscent(feature) ==
    LET coords == Coordinates(feature)
        n == Len(coords)
        D(i) == haversineMeters([lng |-> coords[i - 1][1], lat |-> coords[i - 1][2]],
                                [lng |-> coords[i][1], lat |-> coords[i][2]])
        dz(i) == Ele(coords[i]) - Ele(coords[i - 1])
        total[i \in 1..Max(1, n)] == IF i = 1 THEN 0 ELSE total[i - 1] + D(i)
        ascent[i \in 1..Max(1, n)] ==
            IF i = 1 THEN 0 ELSE ascent[i - 1] + Abs(dz(i))
        descent[i \in 1..Max(1, n)] ==
            IF i = 1 THEN 0 ELSE descent[i - 1] + (IF dz(i) > 0 THEN 0 ELSE -dz(i))
    IN  IF n < 2 THEN NullValue
        ELSE [distKm |-> [i \in 1..n |-> total[i]],
              elevM |-> [i \in 1..n |-> Ele(coords[i])],
              totalDistM |-> total[n],
              ascentM |-> ascent[n],
              descentM |-> descent[n]]

\* getInsights(feature): cumulative distance and elevation series, totals
getInsights(feature) ==
    LET coords == Coordinates(feature)
        n == Len(coords)
        D(i) == haversineMeters([lng |-> coords[i - 1][1], lat |-> coords[i - 1][2]],
                                [lng |-> coords[i][1], lat |-> coords[i][2]])
        dz(i) == Ele(coords[i]) - Ele(coords[i - 1])
        total[i \in 1..Max(1, n)] == IF i = 1 THEN 0 ELSE total[i - 1] + D(i)
        ascent[i \in 1..Max(1, n)] ==
            IF i = 1 THEN 0 ELSE ascent[i - 1] + (IF dz(i) > 0 THEN dz(i) ELSE 0)
        descent[i \in 1..Max(1, n)] ==
            IF i = 1 THEN 0 ELSE descent[i - 1] + (IF dz(i) > 0 THEN 0 ELSE -dz(i))
    IN  IF n < 2 THEN NullValue
        ELSE [distKm |-> [i \in 1..n |-> total[i]],
              elevM |-> [i \in 1..n |-> Ele(coords[i])],
              totalDistM |-> total[n],
              ascentM |-> ascent[n],
              descentM |-> descent[n]]

\* distanceOf(feature): the provider's summary distance, else the
\* haversine length, else 0
distanceOf(feature) ==
    LET p == Properties(feature)
        TotalOf(ins) == IF IsNull(ins) THEN 0 ELSE ins.totalDistM
    IN  IF Has(p, "summary") /\ Has(p.summary, "distance") THEN p.summary.distance
        ELSE TotalOf(getInsights(feature))

\* riskScore without the sentinel: nothing summed over max(0.001, 0) km is 0
riskScoreNoSentinel(feature) ==
    LET FeaturesOf(fc) == IF IsNull(fc) THEN <<>> ELSE fc.features
        SegLen(c) ==
            LET acc[i \in 1..Max(1, Len(c))] ==
                    IF i = 1 THEN 0
                    ELSE acc[i - 1]
                         + haversineMeters([lng |-> c[i - 1][1], lat |-> c[i - 1][2]],
                                           [lng |-> c[i][1], lat |-> c[i][2]])
            IN  acc[Max(1, Len(c))]
        W(f) == IF f.properties.risk = "high" THEN 3
                ELSE IF f.properties.risk = "med" THEN 2 ELSE 1
        Score(fs) ==
            LET sums[i \in 0..Len(fs)] ==
                    IF i = 0 THEN <<0, 0>>
                    ELSE LET seg == SegLen(fs[i].geometry.coordinates)
                             prev == sums[i - 1]
                         IN  <<prev[1] + seg, prev[2] + W(fs[i]) * seg>>
                last == sums[Len(fs)]
            IN  (last[2] * 1000) \div Max(10, last[1])
    IN  Score(FeaturesOf(toRiskFC(feature)))

\* riskScore(feature): risk-weighted length per km (lower is safer)
riskScore(feature) ==
    LET FeaturesOf(fc) == IF IsNull(fc) THEN <<>> ELSE fc.features
        SegLen(c) ==
            LET acc[i \in 1..Max(1, Len(c))] ==
                    IF i = 1 THEN 0
                    ELSE acc[i - 1]
                         + haversineMeters([lng |-> c[i - 1][1], lat |-> c[i - 1][2]],
                                           [lng |-> c[i][1], lat |-> c[i][2]])
            IN  acc[Max(1, Len(c))]
        W(f) == IF f.properties.risk = "high" THEN 3
                ELSE IF f.properties.risk = "med" THEN 2 ELSE 1
        Score(fs) ==
            \* sums[i] = <<lenM, score>> after the loop's turn for feature i
            LET sums[i \in 0..Len(fs)] ==
                    IF i = 0 THEN <<0, 0>>
                    ELSE LET seg == SegLen(fs[i].geometry.coordinates)
                             prev == sums[i - 1]
                         IN  <<prev[1] + seg, prev[2] + W(fs[i]) * seg>>
                last == sums[Len(fs)]
            IN  IF Len(fs) = 0 THEN NO_SEGMENTS_SCORE
                ELSE (last[2] * 1000) \div Max(10, last[1])
    IN  Score(FeaturesOf(toRiskFC(feature)))

----------------------------------------------------------------------------
(* Candidate normalizer.                                                   *)

\* routeSig(feature, samples = 12): the sampled, rounded coordinates and
\* the rounded distance.  JSON.stringify of numbers and nested arrays is
\* injective, so the string is modelled by the value it serialises.
routeSig(feature) ==
    LET c == Coordinates(feature)
        n == Len(c)
        J(i) == (i * (n - 1)) \div (SAMPLES - 1)
        picks == [k \in 1..(2 * SAMPLES) |->
                     LET i == (k - 1) \div 2
                         p == c[J(i) + 1]
                     IN  IF k % 2 = 1 THEN ToFixed5(p[1]) ELSE ToFixed5(p[2])]
    IN  IF n = 0 THEN [empty |-> TRUE]
        ELSE [picks |-> picks, dist |-> MathRound(distanceOf(feature))]

isSameRoute(a, b) == routeSig(a) = routeSig(b)

\* byDistinctness without the seen set: every element is kept
byDistinctnessKeepAll(arr) == arr

\* byDistinctness(arr): the first occurrence of every signature, in order
byDistinctness(arr) ==
    LET B[i \in 0..Len(arr)] ==
            IF i = 0 THEN [seen |-> {}, out |-> <<>>]
            ELSE LET prev == B[i - 1]
                     sig == routeSig(arr[i])
                 IN  IF sig \notin prev.seen
                     THEN [seen |-> prev.seen \cup {sig},
                           out |-> Append(prev.out, arr[i])]
                     ELSE prev
    IN  B[Len(arr)].out

\* JSON.parse(JSON.stringify(f)): every value of the model is a finite
\* number, a string, an array or a plain object without undefined members,
\* which the round trip rebuilds member by member (coordinates point by
\* point, properties key by key).
JsonClone(f) ==
    [k \in DOMAIN f |->
        IF k = "geometry"
        THEN [g \in DOMAIN f.geometry |->
                IF g = "coordinates"
                THEN [i \in 1..Len(f.geometry.coordinates) |->
                        [j \in 1..Len(f.geometry.coordinates[i]) |->
                            f.geometry.coordinates[i][j]]]
                ELSE f.geometry[g]]
        ELSE IF k = "properties"
        THEN [q \in DOMAIN f.properties |-> f.properties[q]]
        ELSE f[k]]

\* cloneAndLabel that forgets the spread of the copied properties
cloneAndLabelFresh(f, label, tag) ==
    With(JsonClone(f), "properties", [_label |-> label, _tag |-> tag])

\* cloneAndLabel(f, _label, _tag)
cloneAndLabel(f, label, tag) ==
    LET c == JsonClone(f)
    IN  With(c, "properties", With(With(Properties(c), "_label", label), "_tag", tag))

----------------------------------------------------------------------------
(* Route selector: the synchronous steps of fetchThreeRoutes.              *)

\* [...shortestPool].sort((a,b) => distanceOf(a) - distanceOf(b))[0]
PickShortest(pool) ==
    SortCmp(pool, LAMBDA a, b : distanceOf(a) - distanceOf(b))[1]

\* byDistinctness([...pools.flat(), ...shortestPool])
MergePools(pools, pool) == byDistinctness(Flat(pools) \o pool)

\* candidates.filter(f => !isSameRoute(f, shortest))
DropShortest(cands, shortest) ==
    Filter(cands, LAMBDA f : ~isSameRoute(f, shortest))

\* The safest pick without the sort: the first candidate in pool order
PickSafestUnsorted(candidates, shortest) ==
    IF candidates = <<>> THEN shortest ELSE candidates[1]

\* [...candidates].sort(by riskScore).find(f => !isSameRoute(f, shortest))
\*   || shortest
PickSafest(candidates, shortest) ==
    LET FirstOr(found, other) == IF found = <<>> THEN other ELSE found[1]
    IN  FirstOr(Filter(SortCmp(candidates,
                               LAMBDA a, b : riskScore(a) - riskScore(b)),
                       LAMBDA f : ~isSameRoute(f, shortest)),
                shortest)

\* The scenic pick and its fallback; NullValue stands for undefined.
PickScenic(candidates, shortest, safest) ==
    LET First(sorted) == IF sorted = <<>> THEN NullValue ELSE sorted[1]
        Pick(scenic, again) ==
            IF IsNull(scenic) \/ isSameRoute(scenic, shortest)
               \/ isSameRoute(scenic, safest)
            THEN again ELSE scenic
    IN  Pick(First(SortCmp(Filter(candidates, LAMBDA f : ~isSameRoute(f, safest)),
                           LAMBDA a, b : distanceOf(b) - distanceOf(a))),
             First(SortCmp(Filter(candidates,
                                  LAMBDA f : ~isSameRoute(f, shortest)
                                             /\ ~isSameRoute(f, safest)),
                           LAMBDA a, b :
                               LET dl == distanceOf(b) - distanceOf(a)
                               IN  IF Abs(dl) > 10 THEN dl
                                   ELSE riskScore(a) - riskScore(b))))

\* pushUnique without the look for an entry of the same route
pushAlways(o, f, label, tag) ==
    IF IsNull(f) THEN o ELSE Append(o, cloneAndLabel(f, label, tag))

\* pushUnique(f, label, tag) on the list o
pushUnique(o, f, label, tag) ==
    IF IsNull(f) THEN o
    ELSE IF Some(o, LAMBDA x : isSameRoute(x, f)) THEN o
    ELSE Append(o, cloneAndLabel(f, label, tag))

\* The scenic label without the comparison with minLong
ScenicLabelAlwaysLong(scenic, shortestDist) == "Long & Scenic"

\* distanceOf(scenic) >= shortestDist * 1.25 ? 'Long & Scenic' : 'Alternate'
ScenicLabel(scenic, shortestDist) ==
    IF 4 * distanceOf(scenic) >= 5 * shortestDist
    THEN "Long & Scenic" ELSE "Alternate"

\* for (const c of candidates) { if (out.length >= 3) break; pushUnique(c, ...) }
Backfill(o, candidates) ==
    LET B[i \in 0..Len(candidates)] ==
            IF i = 0 THEN o
            ELSE LET prev == B[i - 1]
                 IN  IF Len(prev) >= 3 THEN prev
                     ELSE pushUnique(prev, candidates[i], "Alternate", "alt")
    IN  B[Len(candidates)]

\* The last resort that pushes its copy of the shortest route unseen
LastResortAlways(o, shortest) ==
    IF Len(o) < 3 THEN Append(o, cloneAndLabel(shortest, "Alternate", "alt")) ELSE o

\* if (out.length < 3) pushUnique(shortest, 'Alternate', 'alt')
LastResort(o, shortest) ==
    IF Len(o) < 3 THEN pushUnique(o, shortest, "Alternate", "alt") ELSE o

\* Step 5 of fetchThreeRoutes: the list returned
Assemble(shortest, safest, scenic, candidates) ==
    LET PushScenic(o) ==
            IF ~IsNull(scenic) /\ ~isSameRoute(scenic, shortest)
               /\ ~isSameRoute(scenic, safest)
            THEN pushUnique(o, scenic,
                            ScenicLabel(scenic, distanceOf(shortest)), "long")
            ELSE o
        FirstThree(o) == SubSeq(o, 1, Min(3, Len(o)))
    IN  FirstThree(
          LastResort(
            Backfill(
              PushScenic(
                pushUnique(pushUnique(<<>>, shortest, "Shortest", "shortest"),
                           safest, "Safest", "safest")),
              candidates),
            shortest))

\* fetchThreeRoutes from the point where all pools have settled: the
\* locals and the returned list.  pool is the non-empty shortest pool.
SelectThree(pool, pools) ==
    LET Step5(shortest, merged, candidates, safest, scenic) ==
            [shortest |-> shortest, merged |-> merged, candidates |-> candidates,
             safest |-> safest, scenic |-> scenic,
             out |-> Assemble(shortest, safest, scenic, candidates)]
        Step4(shortest, merged, candidates, safest) ==
            Step5(shortest, merged, candidates, safest,
                  PickScenic(candidates, shortest, safest))
        Step3(shortest, merged, candidates) ==
            Step4(shortest, merged, candidates, PickSafest(candidates, shortest))
        Step2(shortest, merged) ==
            Step3(shortest, merged, DropShortest(merged, shortest))
    IN  Step2(PickShortest(pool), MergePools(pools, pool))

----------------------------------------------------------------------------
(* Provider request builder.                                               *)

\* The request body built by fetchORSWithAlts (factors in tenths)
FetchBody(o, d, preference, altCount, weightFactor) ==
    [coordinates |-> << <<o.lng, o.lat>>, <<d.lng, d.lat>> >>,
     preference |-> preference,
     elevation |-> TRUE,
     instructions |-> TRUE,
     instructions_format |-> "text",
     extra_info |-> <<"steepness", "surface", "waytype", "suitability">>,
     options |->
        IF altCount > 1
        THEN [profile_params |-> [weightings |-> [steepness_difficulty |-> 1]],
              alternative_routes |-> [target_count |-> altCount,
                                      share_factor |-> 6,
                                      weight_factor |-> weightFactor]]
        ELSE [profile_params |-> [weightings |-> [steepness_difficulty |-> 1]]]]

\* The four fetchORSWithAlts calls of fetchThreeRoutes
Mandatory == "shortest"
Optional == {"recommendedA", "recommendedB", "fastest"}
Fetches == {Mandatory} \cup Optional
PoolOrder == <<"recommendedA", "recommendedB", "fastest">>

FetchArgs(f) ==
    CASE f = "shortest"     -> [preference |-> "shortest", altCount |-> 3, weightFactor |-> 20]
      [] f = "recommendedA" -> [preference |-> "recommended", altCount |-> 8, weightFactor |-> 24]
      [] f = "recommendedB" -> [preference |-> "recommended", altCount |-> 8, weightFactor |-> 30]
      [] f = "fastest"      -> [preference |-> "fastest", altCount |-> 6, weightFactor |-> 22]

\* A provider message is modelled by the set of (lower-cased) keywords of
\* the fallback patterns that occur in it; a pattern /a|b/i matches when one
\* of its alternatives occurs.
Mentions(msg, words) == msg \cap words # {}

InExtraInfo(cur, x) == \E i \in 1..Len(cur.extra_info) : cur.extra_info[i] = x

\* The three recoverable rejections of orsPost, in the order tested
DropsSuitability(cur, res) ==
    /\ res.status = 400
    /\ Mentions(res.msg, {"extra_info", "suitability"})
    /\ InExtraInfo(cur, "suitability")

DropsProfileParams(cur, res) ==
    /\ res.status = 400
    /\ Mentions(res.msg, {"profile_params", "weightings", "options"})
    /\ Has(cur, "options") /\ Has(cur.options, "profile_params")

DropsAlternativeRoutes(cur, res) ==
    /\ res.status = 400
    /\ Mentions(res.msg, {"alternative_routes"})
    /\ Has(cur, "options") /\ Has(cur.options, "alternative_routes")

\* Degrade that tests the three fallbacks in the reverse order
DegradeReversed(cur, res) ==
    IF DropsAlternativeRoutes(cur, res)
    THEN With(cur, "options", Without(cur.options, "alternative_routes"))
    ELSE IF DropsProfileParams(cur, res)
    THEN With(cur, "options", Without(cur.options, "profile_params"))
    ELSE With(cur, "extra_info",
              Filter(cur.extra_info, LAMBDA x : x # "suitability"))

\* Degrade that drops every requested extra instead of "suitability" alone
DegradeAllExtras(cur, res) ==
    IF DropsSuitability(cur, res)
    THEN With(cur, "extra_info", <<>>)
    ELSE IF DropsProfileParams(cur, res)
    THEN With(cur, "options", Without(cur.options, "profile_params"))
    ELSE With(cur, "options", Without(cur.options, "alternative_routes"))

\* The degraded request that replaces cur after a recoverable rejection
Degrade(cur, res) ==
    IF DropsSuitability(cur, res)
    THEN With(cur, "extra_info",
              Filter(cur.extra_info, LAMBDA x : x # "suitability"))
    ELSE IF DropsProfileParams(cur, res)
    THEN With(cur, "options", Without(cur.options, "profile_params"))
    ELSE With(cur, "options", Without(cur.options, "alternative_routes"))

Recoverable(cur, res) ==
    DropsSuitability(cur, res) \/ DropsProfileParams(cur, res)
    \/ DropsAlternativeRoutes(cur, res)

\* orsPostStep that sends the degraded request after the last attempt too
orsPostStepResendLast(cur, attempt, res) ==
    IF ~res.net
        THEN [do |-> "throw", error |-> [message |-> "fetch failed"]]
    ELSE IF res.ok
        THEN [do |-> "return", json |-> res.json]
    ELSE IF Recoverable(cur, res)
        THEN IF attempt < MAX_ATTEMPTS
             THEN [do |-> "resend", cur |-> Degrade(cur, res)]
             ELSE [do |-> "throw",
                   error |-> [message |-> "ORS failed after retries"]]
    ELSE [do |-> "throw",
          error |-> [message |-> "ORS error", status |-> res.status,
                     msg |-> res.msg]]

\* orsPostStep whose loop has no bound on the attempts
orsPostStepUnbounded(cur, attempt, res) ==
    IF ~res.net
        THEN [do |-> "throw", error |-> [message |-> "fetch failed"]]
    ELSE IF res.ok
        THEN [do |-> "return", json |-> res.json]
    ELSE IF Recoverable(cur, res)
        THEN [do |-> "resend", cur |-> Degrade(cur, res)]
    ELSE [do |-> "throw",
          error |-> [message |-> "ORS error", status |-> res.status,
                     msg |-> res.msg]]

\* One turn of orsPost's loop on the response res to the request cur sent
\* as attempt number attempt: return the body, resend a degraded request,
\* or throw.  A response is [net |-> FALSE] when http() or JSON.parse threw,
\* else [net |-> TRUE, ok, status, json, msg].
orsPostStep(cur, attempt, res) ==
    IF ~res.net
        THEN [do |-> "throw", error |-> [message |-> "fetch failed"]]
    ELSE IF res.ok
        THEN [do |-> "return", json |-> res.json]
    ELSE IF Recoverable(cur, res)
        THEN IF attempt + 1 < MAX_ATTEMPTS
             THEN [do |-> "resend", cur |-> Degrade(cur, res)]
             ELSE [do |-> "throw",
                   error |-> [message |-> "ORS failed after retries"]]
    ELSE [do |-> "throw",
          error |-> [message |-> "ORS error", status |-> res.status,
                     msg |-> res.msg]]

\* fetchORSWithAlts after orsPost returned json: the features, each tagged
\* with the preference asked for
TagPreference(json, preference) ==
    IF IsNull(json) \/ ~Has(json, "features") THEN <<>>
    ELSE [i \in 1..Len(json.features) |->
            With(json.features[i], "properties",
                 With(Properties(json.features[i]), "_preference", preference))]

----------------------------------------------------------------------------
(* The routing provider: the routes it may return and how it may answer.   *)

Pt(x, y, z) == <<x, y, z>>

Route(coords, dist, suit, surf, way) ==
    [type |-> "Feature",
     geometry |-> [type |-> "LineString", coordinates |-> coords],
     properties |-> [summary |-> [distance |-> dist],
                     extras |-> [suitability |-> [values |-> suit],
                                 surface |-> [values |-> surf],
                                 waytype |-> [values |-> way]]]]

\* A direct route whose first half has low suitability (3.0)
RouteDirect ==
    Route(<<Pt(0, 0, 0), Pt(0, 4500, 20), Pt(0, 9000, 0)>>, 10004,
          << <<0, 1, 30>>, <<1, 2, 80>> >>, << <<0, 2, 3>> >>, << <<0, 2, 2>> >>)

\* A slightly longer route of high suitability throughout
RouteSafe ==
    Route(<<Pt(0, 0, 0), Pt(3000, 4500, 0), Pt(0, 9000, 0)>>, 12010,
          << <<0, 2, 90>> >>, << <<0, 2, 3>> >>, << <<0, 2, 6>> >>)

\* A detour more than 25% longer than the direct route, moderate suitability
RouteLong ==
    Route(<<Pt(0, 0, 0), Pt(-6000, 4500, 100), Pt(0, 9000, 0)>>, 16700,
          << <<0, 2, 60>> >>, << <<0, 1, 3>>, <<1, 2, 10>> >>, << <<0, 2, 4>> >>)

\* A steep route (about 9%) whose suitability is given on the 0..1 scale
RouteHilly ==
    Route(<<Pt(0, 0, 0), Pt(2000, 4500, 500), Pt(0, 9000, 0)>>, 11000,
          << <<0, 2, 9>> >>, << <<0, 2, 3>> >>, << <<0, 2, 3>> >>)

\* The direct route as a second request may return it: coordinates and
\* distance differ below the rounding of routeSig
RouteDirectAgain ==
    Route(<<Pt(0, 2, 0), Pt(1, 4503, 20), Pt(0, 9004, 0)>>, 10001,
          << <<0, 1, 30>>, <<1, 2, 80>> >>, << <<0, 2, 3>> >>, << <<0, 2, 2>> >>)

AllRoutes == <<RouteDirect, RouteSafe, RouteLong, RouteHilly, RouteDirectAgain>>

\* The routes the provider answers with: the first NRoutes of AllRoutes
Catalogue == {AllRoutes[i] : i \in 1..Min(NRoutes, Len(AllRoutes))}

\* Sequences over S of length at most n
SeqsUpTo(S, n) == UNION {[1..k -> S] : k \in 0..n}

\* The messages of the provider's error responses
Messages ==
    { {"suitability"}, {"weightings"}, {"options", "alternative_routes"},
      {"alternative_routes"}, {} }

\* The error statuses and messages of the provider's answers
Rejections ==
    ({400} \X Messages) \cup {<<500, {}>>, <<500, {"suitability"}>>}

OkResponses(n) ==
    {[net |-> TRUE, ok |-> TRUE, status |-> 200, msg |-> {},
      json |-> [type |-> "FeatureCollection", features |-> fs]] :
        fs \in SeqsUpTo(Catalogue, n)}
    \cup {[net |-> TRUE, ok |-> TRUE, status |-> 200, msg |-> {}, json |-> NullValue]}

ErrResponses ==
    {[net |-> TRUE, ok |-> FALSE, status |-> r[1], msg |-> r[2],
      json |-> NullValue] : r \in Rejections}

NetFailure == [net |-> FALSE]

Origin == [lng |-> 0, lat |-> 0]
Dest == [lng |-> 0, lat |-> 9000]

----------------------------------------------------------------------------
(* fetchThreeRoutes as a state machine.  req[f] is the orsPost loop of     *)
(* fetch f: not started, a request in flight (cur, attempt), or settled    *)
(* with the pool fetchORSWithAlts(...).catch(() => []) resolved to.        *)

NotStarted == [st |-> "none", cur |-> NullValue, attempt |-> 0,
               pool |-> <<>>, failed |-> FALSE]
InFlight(cur, attempt) == [st |-> "inflight", cur |-> cur, attempt |-> attempt,
                           pool |-> <<>>, failed |-> FALSE]
Settled(pool, failed) == [st |-> "settled", cur |-> NullValue, attempt |-> 0,
                          pool |-> pool, failed |-> failed]

BodyOf(f) ==
    FetchBody(Origin, Dest, FetchArgs(f).preference, FetchArgs(f).altCount,
              FetchArgs(f).weightFactor)

\* The most features a response to fetch f carries in the model (the
\* requests ask for up to 3, 8, 8 and 6 alternatives)
PoolBound(f) == IF f = Mandatory THEN 2 ELSE 1

\* fetchORSWithAlts(...).catch(() => []) once orsPost has returned or thrown
CatchEmpty(step, f) ==
    IF step.do = "return"
    THEN Settled(TagPreference(step.json, FetchArgs(f).preference), FALSE)
    ELSE Settled(<<>>, TRUE)

\* Promise.all whose first failure discards the pools of its siblings
PoolsOfFailFast(r) ==
    [i \in 1..Len(PoolOrder) |->
        IF \E g \in Optional : r[g].failed THEN <<>> ELSE r[PoolOrder[i]].pool]

\* const pools = await Promise.all([...]): the three pools in call order
PoolsOf(r) == [i \in 1..Len(PoolOrder) |-> r[PoolOrder[i]].pool]

Init ==
    /\ pc = "idle"
    /\ req = [f \in Fetches |-> NotStarted]
    /\ sel = NullValue
    /\ out = <<>>
    /\ err = "none"
    /\ env \in {[ORS_KEY |-> TRUE], [ORS_KEY |-> FALSE]}
    /\ call = [fn |-> "none"]
    /\ ret = NullValue

\* fetchThreeRoutes(o, d) up to its first await: the 'shortest' request is
\* sent, or orsPost throws for want of a key and the call fails.
CallFetchThreeRoutes ==
    /\ pc = "idle"
    /\ IF env.ORS_KEY
       THEN /\ pc' = "shortest"
            /\ req' = [req EXCEPT ![Mandatory] = InFlight(BodyOf(Mandatory), 0)]
            /\ err' = err
       ELSE /\ pc' = "shortest"
            /\ req' = [req EXCEPT ![Mandatory] = Settled(<<>>, TRUE)]
            /\ err' = err
    /\ UNCHANGED <<sel, out, env, call, ret>>

\* The response res to the request in flight for fetch f arrives: orsPost's
\* loop takes one turn, and when it returns or throws, fetchORSWithAlts and
\* its .catch(() => []) settle the fetch.
Handle(f, res) ==
    LET step == orsPostStep(req[f].cur, req[f].attempt, res)
    IN  /\ req[f].st = "inflight"
        /\ req' = [req EXCEPT ![f] =
                     IF step.do = "resend"
                     THEN InFlight(step.cur, req[f].attempt + 1)
                     ELSE CatchEmpty(step, f)]
        /\ UNCHANGED <<pc, sel, out, err, env, call, ret>>

ProviderAccepts ==
    \E f \in Fetches : \E res \in OkResponses(PoolBound(f)) : Handle(f, res)

ProviderRejects ==
    \E f \in Fetches : \E res \in ErrResponses : Handle(f, res)

RequestFails ==
    \E f \in Fetches : Handle(f, NetFailure)

\* AfterShortest that returns an empty list instead of throwing
AfterShortestNoThrow ==
    /\ pc = "shortest"
    /\ req[Mandatory].st = "settled"
    /\ IF req[Mandatory].pool = <<>>
       THEN /\ pc' = "done"
            /\ req' = req
       ELSE /\ pc' = "pools"
            /\ req' = [g \in Fetches |->
                         IF g \in Optional THEN InFlight(BodyOf(g), 0) ELSE req[g]]
    /\ UNCHANGED <<sel, out, err, env, call, ret>>

\* fetchThreeRoutes resumes after `await fetchORSWithAlts(o, d, 'shortest',
\* ...)`: it throws on an empty pool, else the three optional requests are
\* sent together (Promise.all of three calls).
AfterShortest ==
    /\ pc = "shortest"
    /\ req[Mandatory].st = "settled"
    /\ IF req[Mandatory].pool = <<>>
       THEN /\ pc' = "failed"
            /\ err' = "No route (shortest)"
            /\ req' = req
       ELSE /\ pc' = "pools"
            /\ err' = err
            /\ req' = [g \in Fetches |->
                         IF g \in Optional THEN InFlight(BodyOf(g), 0) ELSE req[g]]
    /\ UNCHANGED <<sel, out, env, call, ret>>

\* fetchThreeRoutes resumes after `await Promise.all([...])`, once the
\* three optional fetches have settled: steps 2 to 5 and the return.
AfterPools ==
    /\ pc = "pools"
    /\ \A g \in Optional : req[g].st = "settled"
    /\ pc' = "done"
    /\ sel' = SelectThree(req[Mandatory].pool, PoolsOf(req))
    /\ out' = sel'.out
    /\ UNCHANGED <<req, err, env, call, ret>>

Next ==
    \/ CallFetchThreeRoutes
    \/ ProviderAccepts
    \/ ProviderRejects
    \/ RequestFails
    \/ AfterShortest
    \/ AfterPools

Spec == Init /\ [][Next]_vars

----------------------------------------------------------------------------
(* Direct calls.  The functions below fetchThreeRoutes are also applied    *)
(* on their own to inputs drawn from bounded sets: call holds the function *)
(* and its arguments, ret the value returned.                              *)

InitCalls == Init /\ env.ORS_KEY

Calling(fn) ==
    /\ call = [fn |-> "none"]
    /\ UNCHANGED <<pc, req, sel, out, err, env>>

\* --- toRiskFC ---------------------------------------------------------

\* A path of n points climbing and descending along a bend
PathOfLen(n) ==
    [i \in 1..n |-> Pt(IF i % 2 = 0 THEN 1500 ELSE 0, 3000 * (i - 1),
                       IF i % 2 = 0 THEN 300 ELSE 0)]

\* The most ranges of one attribute kind in an input
RangeBound(kind) == IF kind = "suitability" THEN 2 ELSE 1

AttrValues(kind) ==
    CASE kind = "suitability" -> {30, 80}
      [] kind = "surface" -> {3, 10}
      [] kind = "waytype" -> {2}

\* The range lists of one kind over a path of n points
RangeLists(kind, n) ==
    SeqsUpTo({<<a, b, v>> : a \in 0..(n - 1), b \in 0..(n - 1),
                            v \in AttrValues(kind)}
             \ {r \in (0..(n - 1)) \X (0..(n - 1)) \X AttrValues(kind) : r[1] > r[2]},
             RangeBound(kind))

PathFeature(coords, suit, surf, way) ==
    [type |-> "Feature",
     geometry |-> [type |-> "LineString", coordinates |-> coords],
     properties |-> [extras |-> [suitability |-> [values |-> suit],
                                 surface |-> [values |-> surf],
                                 waytype |-> [values |-> way]]]]

CallToRiskFC ==
    /\ Calling("toRiskFC")
    /\ \E n \in 2..MaxPts :
         \E suit \in RangeLists("suitability", n),
            surf \in RangeLists("surface", n),
            way \in RangeLists("waytype", n) :
            LET feature == PathFeature(PathOfLen(n), suit, surf, way)
            IN  /\ call' = [fn |-> "toRiskFC", feature |-> feature]
                /\ ret' = toRiskFC(feature)

\* Features without attribute data: no properties, no extras, empty
\* extras, extras without values
BareProperties ==
    {<< >>, [summary |-> [distance |-> 10004]], [extras |-> << >>],
     [extras |-> [suitability |-> << >>]],
     [extras |-> [suitability |-> [values |-> <<>>],
                  surface |-> [values |-> <<>>],
                  waytype |-> [values |-> <<>>]]]}

BarePaths ==
    {PathOfLen(n) : n \in 2..MaxPts}
    \cup {[i \in 1..n |-> <<0, 3000 * (i - 1)>>] : n \in 2..MaxPts}

CallToRiskFCBare ==
    /\ Calling("toRiskFC")
    /\ \E coords \in BarePaths :
         \/ \E props \in BareProperties :
               LET feature == [type |-> "Feature",
                               geometry |-> [type |-> "LineString",
                                             coordinates |-> coords],
                               properties |-> props]
               IN  /\ call' = [fn |-> "toRiskFC", feature |-> feature]
                   /\ ret' = toRiskFC(feature)
         \/ LET feature == [type |-> "Feature",
                            geometry |-> [type |-> "LineString",
                                          coordinates |-> coords]]
            IN  /\ call' = [fn |-> "toRiskFC", feature |-> feature]
                /\ ret' = toRiskFC(feature)

\* --- getInsights ------------------------------------------------------

\* Points at two places, with elevations 0, 15 m, 30 m and without
InsightPoints ==
    {<<0, 0, 0>>, <<0, 0, 300>>, <<0, 3000, 150>>, <<0, 3000>>, <<1500, 0, 300>>}

CallGetInsights ==
    /\ Calling("getInsights")
    /\ \E coords \in SeqsUpTo(InsightPoints, MaxPts) :
         LET feature == [type |-> "Feature",
                         geometry |-> [type |-> "LineString",
                                       coordinates |-> coords]]
         IN  /\ Len(coords) >= 2
             /\ call' = [fn |-> "getInsights", feature |-> feature]
             /\ ret' = getInsights(feature)

\* --- gradeRisk --------------------------------------------------------

\* Suitability values as the provider may give them: on the 0..1 scale
\* (tenths 0..10) and on the 0..10 scale (whole and half values)
SuitInputs == (0..10) \cup {5 * k : k \in 2..20}
GradeInputs == {0, 500, 650, 799, 800, 900}
SurfInputs == {NULL, 1, 3, 9} \cup {2, 8, 10, 11, 12, 15, 17, 18}

\* gradeRisk applied to two inputs that differ in suitability only
CallGradeRisk ==
    /\ Calling("gradeRisk")
    /\ \E a \in SuitInputs, b \in SuitInputs, g \in GradeInputs, c \in SurfInputs :
         LET x == [suit |-> a, surf |-> c, avgPct |-> g]
             y == [suit |-> b, surf |-> c, avgPct |-> g]
         IN  /\ call' = [fn |-> "gradeRisk", a |-> x, b |-> y]
             /\ ret' = [a |-> gradeRisk(x), b |-> gradeRisk(y)]

\* --- paths of fewer than 2 points ------------------------------------------

ShortFeatures ==
    {PathFeature(c, suit, <<>>, <<>>) :
        c \in {<<>>, <<Pt(0, 0, 0)>>},
        suit \in {<<>>, << <<0, 0, 80>> >>}}
    \cup {[type |-> "Feature", properties |-> << >>]}

\* toRiskFC, getInsights and riskScore applied to one short path
CallOnShortPath ==
    /\ Calling("shortPath")
    /\ \E feature \in ShortFeatures :
         /\ call' = [fn |-> "shortPath", feature |-> feature]
         /\ ret' = [fc |-> toRiskFC(feature), ins |-> getInsights(feature),
                    score |-> riskScore(feature)]

\* --- avgGrade -------------------------------------------------------------

\* Points at one place with different elevations (one without elevation),
\* and a point 3000 micro-degrees further north
GradePoints == {<<0, 0, 0>>, <<0, 0, 300>>, <<0, 0>>, <<0, 3000, 150>>}

CallAvgGrade ==
    /\ Calling("avgGrade")
    /\ \E seg \in SeqsUpTo(GradePoints, MaxPts) :
         /\ call' = [fn |-> "avgGrade", seg |-> seg]
         /\ ret' = avgGrade(seg)

NextRisk ==
    \/ CallToRiskFC
    \/ CallToRiskFCBare
    \/ CallGetInsights
    \/ CallGradeRisk
    \/ CallOnShortPath
    \/ CallAvgGrade

SpecRisk == InitCalls /\ [][NextRisk]_vars

\* --- routeSig, isSameRoute, cloneAndLabel -------------------------------

\* Points that differ beyond the 5th decimal (4 and 6 micro-degrees), that
\* round alike (6 and 12), with and without elevation
SigPoints == {<<0, 4, 0>>, <<0, 6, 0>>, <<-3, 12>>}

\* Summary distances 1000.4 m and 1000.6 m
SigDistances == {10004, 10006}

SigFeature(coords, props) ==
    [type |-> "Feature",
     geometry |-> [type |-> "LineString", coordinates |-> coords],
     properties |-> props]

SigFeatures ==
    {SigFeature(c, [summary |-> [distance |-> d]]) :
        c \in SeqsUpTo(SigPoints, MaxPts - 1), d \in SigDistances}
    \cup {SigFeature(c, [way_points |-> <<0, Len(c) - 1>>]) :
            c \in SeqsUpTo(SigPoints, MaxPts - 1)}

CallIsSameRoute ==
    /\ Calling("isSameRoute")
    /\ \E a \in SigFeatures, b \in SigFeatures :
         /\ call' = [fn |-> "isSameRoute", a |-> a, b |-> b]
         /\ ret' = isSameRoute(a, b)

Labels == {<<"Shortest", "shortest">>, <<"Safest", "safest">>,
           <<"Long & Scenic", "long">>, <<"Alternate", "alt">>}

CallCloneAndLabel ==
    /\ Calling("cloneAndLabel")
    /\ \E f \in SigFeatures \cup Catalogue, l \in Labels :
         /\ call' = [fn |-> "cloneAndLabel", f |-> f, label |-> l[1], tag |-> l[2]]
         /\ ret' = cloneAndLabel(f, l[1], l[2])

\* The candidates of a pool: routes as fetchORSWithAlts tags them, two of
\* which have one signature
PoolRoutes ==
    {TagPreference([features |-> <<r>>], p)[1] :
        r \in {RouteDirect, RouteDirectAgain, RouteSafe},
        p \in {"shortest", "recommended"}}

CallByDistinctness ==
    /\ Calling("byDistinctness")
    /\ \E arr \in SeqsUpTo(PoolRoutes, MaxPts) :
         /\ call' = [fn |-> "byDistinctness", arr |-> arr]
         /\ ret' = [out |-> byDistinctness(arr),
                    again |-> byDistinctness(byDistinctness(arr))]

NextSig == CallIsSameRoute \/ CallCloneAndLabel \/ CallByDistinctness

SpecSig == InitCalls /\ [][NextSig]_vars

\* --- orsPost ------------------------------------------------------------
\* call holds orsPost's locals cur and attempt and the exchange with the
\* provider so far: sent[k] is the k-th request, resps[k] its response.

Pending == [st |-> "pending"]
Returned(json) == [st |-> "returned", json |-> json]
Thrown(error) == [st |-> "thrown", error |-> error]

\* orsPost(body) up to its first await
CallOrsPost ==
    /\ call = [fn |-> "none"]
    /\ \E f \in Fetches :
         IF env.ORS_KEY
         THEN /\ call' = [fn |-> "orsPost", cur |-> BodyOf(f), attempt |-> 0,
                          sent |-> <<BodyOf(f)>>, resps |-> <<>>]
              /\ ret' = Pending
         ELSE /\ call' = [fn |-> "orsPost", cur |-> BodyOf(f), attempt |-> 0,
                          sent |-> <<>>, resps |-> <<>>]
              /\ ret' = Thrown([message |->
                                  "Missing OpenRouteService key (VITE_ORS_KEY)"])
    /\ UNCHANGED <<pc, req, sel, out, err, env>>

\* The response res to the last request sent arrives
OrsHandle(res) ==
    LET step == orsPostStep(call.cur, call.attempt, res)
    IN  /\ call.fn = "orsPost"
        /\ ret = Pending
        /\ IF step.do = "resend"
           THEN /\ call' = [call EXCEPT !.cur = step.cur,
                                        !.attempt = call.attempt + 1,
                                        !.sent = Append(call.sent, step.cur),
                                        !.resps = Append(call.resps, res)]
                /\ ret' = Pending
           ELSE /\ call' = [call EXCEPT !.resps = Append(call.resps, res)]
                /\ ret' = IF step.do = "return" THEN Returned(step.json)
                          ELSE Thrown(step.error)
        /\ UNCHANGED <<pc, req, sel, out, err, env>>

OrsAccepted == \E res \in OkResponses(1) : OrsHandle(res)
OrsRejected == \E res \in ErrResponses : OrsHandle(res)
OrsFetchFails == OrsHandle(NetFailure)

NextOrs == CallOrsPost \/ OrsAccepted \/ OrsRejected \/ OrsFetchFails

SpecOrs == Init /\ [][NextOrs]_vars

----------------------------------------------------------------------------
(* Properties.                                                             *)

LabelOf(x) == x.properties._label
TagOf(x) == x.properties._tag

\* The mandatory fetch has settled with nothing: it failed or came back empty
EmptyShortest ==
    req[Mandatory].st = "settled" /\ req[Mandatory].pool = <<>>

AllPoolsSettled == \A g \in Optional : req[g].st = "settled"

\* Everything the four fetches returned, in merge order
AllReturned == Flat(PoolsOf(req)) \o req[Mandatory].pool

\* C1: whenever the 'shortest' pool is non-empty, fetchThreeRoutes returns
\* a list of exactly 3 entries, whatever the optional pools hold.
C1_ExactlyThree == pc = "done" => Len(out) = 3

\* x is the last-resort copy of the shortest route
IsLastResort(x) == TagOf(x) = "alt" /\ isSameRoute(x, sel.shortest)

\* C2: every two entries of the returned list have different signatures,
\* unless one is the last-resort duplicate of the shortest route.
C2_PairwiseDistinct ==
    pc = "done" =>
        \A i, j \in 1..Len(out) :
            i < j => \/ routeSig(out[i]) # routeSig(out[j])
                     \/ IsLastResort(out[j])

\* C2 witness: three routes were returned from pools that held duplicates
C2_Witness ==
    /\ pc = "done"
    /\ Len(out) = 3
    /\ Len(sel.merged) < Len(AllReturned)

\* C3: when no candidate is distinct from the shortest route, the result is
\* the shortest route labeled "Shortest" followed by two copies of it
\* labeled "Alternate".
C3_AlternateCopies ==
    (pc = "done" /\ sel.candidates = <<>>) =>
        /\ Len(out) = 3
        /\ LabelOf(out[1]) = "Shortest"
        /\ \A i \in 2..3 : LabelOf(out[i]) = "Alternate"
                           /\ isSameRoute(out[i], out[1])

\* C9: if the 'shortest' pool comes back empty or its fetch fails,
\* fetchThreeRoutes fails as a whole: it returns no routes, sends none of
\* the three optional requests, and its next step is to throw.
C9_ShortestMandatory ==
    /\ [](EmptyShortest =>
            /\ pc \in {"shortest", "failed"}
            /\ out = <<>>
            /\ \A g \in Optional : req[g] = NotStarted)
    /\ [][(EmptyShortest /\ pc = "shortest") =>
            (pc' = "failed" /\ err' = "No route (shortest)")]_vars

\* C9 witness: the call failed after the 'shortest' fetch itself failed
C9_Witness ==
    /\ pc = "failed"
    /\ err = "No route (shortest)"
    /\ req[Mandatory].failed

\* C10: whichever optional fetches fail, the call still completes (only the
\* mandatory fetch can fail it), and every candidate a successful fetch
\* returned is represented in the merged pool the selection works on.
C10_PartialFailure ==
    /\ [](pc = "failed" => EmptyShortest)
    /\ [](pc = "done" =>
            \A g \in Optional : \A k \in 1..Len(req[g].pool) :
                \E m \in 1..Len(sel.merged) :
                    isSameRoute(sel.merged[m], req[g].pool[k]))
    /\ [][(pc = "pools" /\ AllPoolsSettled) => (pc' = "done" /\ err' = "none")]_vars

\* C10 witness: two optional fetches failed, the third returned a route
\* other than the shortest, and that route is among those returned
C10_Witness ==
    /\ pc = "done"
    /\ req["recommendedA"].failed
    /\ req["fastest"].failed
    /\ ~req["recommendedB"].failed
    /\ req["recommendedB"].pool # <<>>
    /\ ~isSameRoute(req["recommendedB"].pool[1], sel.shortest)
    /\ \E i \in 1..Len(out) : isSameRoute(out[i], req["recommendedB"].pool[1])

\* C4: the intervals of toRiskFC ascend, start at 0, end at len-1, and each
\* starts where the previous one ends.
C4_Partition ==
    call.fn = "toRiskFC" =>
        LET fs == ret.features
            n == Len(Coordinates(call.feature))
        IN  /\ Len(fs) >= 1
            /\ fs[1].properties.sIndex = 0
            /\ fs[Len(fs)].properties.eIndex = n - 1
            /\ \A i \in 1..Len(fs) :
                 /\ fs[i].properties.sIndex < fs[i].properties.eIndex
                 /\ i < Len(fs) =>
                      fs[i + 1].properties.sIndex = fs[i].properties.eIndex

\* C4 witness: ranges of two kinds with boundaries that do not align
C4_Witness ==
    /\ call.fn = "toRiskFC"
    /\ Len(ret.features) = 2
    /\ Len(Coordinates(call.feature)) = 3
    /\ ExtraValues(call.feature, "suitability") = << <<0, 1, 30>>, <<1, 2, 80>> >>
    /\ ExtraValues(call.feature, "surface") = << <<0, 2, 10>> >>

Severity(risk) == CASE risk = "low" -> 1 [] risk = "med" -> 2 [] risk = "high" -> 3

\* C5: for fixed grade and surface, a suitability input that is not larger
\* gives a tier that is at least as severe.
C5_Monotonic ==
    call.fn = "gradeRisk" =>
        (call.a.suit <= call.b.suit =>
            Severity(ret.a.risk) >= Severity(ret.b.risk))

\* A coordinate cut after its 5th decimal
Trunc5(x) == IF x < 0 THEN -((-x) \div 10) ELSE x \div 10

\* a and b have the same coordinates up to the 5th decimal
SameTo5Decimals(a, b) ==
    LET ca == Coordinates(a)
        cb == Coordinates(b)
    IN  /\ Len(ca) = Len(cb)
        /\ \A i \in 1..Len(ca) : \A j \in 1..2 :
              Trunc5(ca[i][j]) = Trunc5(cb[i][j])

\* C6: two candidates whose coordinates differ only beyond the 5th decimal
\* and whose distances differ by less than 1 m are the same route.
C6_JitterSame ==
    (/\ call.fn = "isSameRoute"
     /\ SameTo5Decimals(call.a, call.b)
     /\ Abs(distanceOf(call.a) - distanceOf(call.b)) < 10) => ret = TRUE

\* C7: the signature depends on coordinates and distance only: a labeled
\* candidate is the same route as itself, and a labeled deep copy, and the
\* same feature tagged with a preference, have the signature of the original.
C7_SigIgnoresLabels ==
    /\ (call.fn = "isSameRoute" /\ call.a = call.b) => ret = TRUE
    /\ call.fn = "cloneAndLabel" =>
        /\ routeSig(ret) = routeSig(call.f)
        /\ LabelOf(ret) = call.label /\ TagOf(ret) = call.tag
        /\ \A p \in {"shortest", "recommended", "fastest"} :
              routeSig(TagPreference([features |-> <<call.f>>], p)[1])
                  = routeSig(call.f)

\* C7 witness: a labeled copy of a provider route whose summary distance is
\* not the haversine length of its geometry
C7_Witness ==
    /\ call.fn = "cloneAndLabel"
    /\ LabelOf(ret) = "Safest"
    /\ Len(Coordinates(call.f)) >= 2
    /\ Has(call.f.properties, "summary")
    /\ call.f.properties.summary.distance # getInsights(call.f).totalDistM

\* The request body was rejected with status 400 and a message mentioning
\* suitability or extra_info while it asked for the suitability extra
SuitabilityRejected(body, res) ==
    /\ res.net /\ ~res.ok /\ res.status = 400
    /\ res.msg \cap {"suitability", "extra_info"} # {}
    /\ \E i \in 1..Len(body.extra_info) : body.extra_info[i] = "suitability"

\* next is body with "suitability" removed from extra_info and every other
\* field as it was
OnlySuitabilityRemoved(body, next) ==
    /\ DOMAIN next = DOMAIN body
    /\ \A k \in DOMAIN body \ {"extra_info"} : next[k] = body[k]
    /\ next.extra_info = Filter(body.extra_info, LAMBDA x : x # "suitability")
    /\ Len(next.extra_info) = Len(body.extra_info) - 1

\* The k-th request of the call was answered by such a rejection, and the
\* call resent it degraded and returned the next response if successful
ResentWithoutSuitability(k) ==
    /\ Len(call.sent) > k
    /\ OnlySuitabilityRemoved(call.sent[k], call.sent[k + 1])
    /\ (Len(call.resps) > k /\ call.resps[k + 1].net /\ call.resps[k + 1].ok)
          => ret = Returned(call.resps[k + 1].json)

\* C8 as stated: every request rejected for suitability is resent with
\* only "suitability" removed, and a success of that request is returned.
C8_AlwaysResent ==
    call.fn = "orsPost" =>
        \A k \in 1..Len(call.resps) :
            SuitabilityRejected(call.sent[k], call.resps[k])
                => ResentWithoutSuitability(k)

\* C8 amended: the same, for a rejected request that was the first or the
\* second of the call (the third rejection ends the call).
C8_ResentUnlessThird ==
    call.fn = "orsPost" =>
        \A k \in 1..Len(call.resps) :
            (k < MAX_ATTEMPTS /\ SuitabilityRejected(call.sent[k], call.resps[k]))
                => ResentWithoutSuitability(k)

\* C8 witness: the first request was rejected for suitability, the second
\* succeeded and its routes were returned
C8_Witness ==
    /\ call.fn = "orsPost"
    /\ Len(call.resps) = 2
    /\ SuitabilityRejected(call.sent[1], call.resps[1])
    /\ call.resps[2].net /\ call.resps[2].ok
    /\ ret.st = "returned"
    /\ ~IsNull(ret.json) /\ ret.json.features # <<>>


----------------------------------------------------------------------------
(* orsPost: retries, errors and the order of the fallbacks.                *)

\* orsPost under the assumption that every request sent is answered
SpecOrsLive == SpecOrs /\ WF_vars(OrsAccepted \/ OrsRejected \/ OrsFetchFails)

OptionalFeatures == {"suitability", "profile_params", "alternative_routes"}

\* The optional features a request body still carries
CarriedFeatures(body) ==
    {f \in OptionalFeatures :
        IF f = "suitability"
        THEN \E i \in 1..Len(body.extra_info) : body.extra_info[i] = f
        ELSE f \in DOMAIN body.options}

\* next is body with the optional feature f removed and nothing else changed
RemovedOne(body, next, f) ==
    IF f = "suitability" THEN OnlySuitabilityRemoved(body, next)
    ELSE /\ f \in DOMAIN body.options
         /\ DOMAIN next = DOMAIN body
         /\ \A k \in DOMAIN body \ {"options"} : next[k] = body[k]
         /\ DOMAIN next.options = DOMAIN body.options \ {f}
         /\ \A q \in DOMAIN next.options : next.options[q] = body.options[q]

\* C12: one orsPost call sends at most 3 requests, every resent request is
\* the one before it less exactly one optional feature, and the call ends
\* (returns or throws) once its requests are answered.
C12_BoundedRetries ==
    /\ [](call.fn = "orsPost" =>
            /\ Len(call.sent) <= 3
            /\ \A k \in 1..(Len(call.sent) - 1) :
                  \E f \in OptionalFeatures :
                      RemovedOne(call.sent[k], call.sent[k + 1], f))
    /\ (call.fn = "orsPost") ~> (call.fn = "orsPost" /\ ret.st # "pending")

\* C12 witness: the third request of a call succeeded
C12_Witness ==
    /\ call.fn = "orsPost"
    /\ Len(call.sent) = 3
    /\ Len(call.resps) = 3
    /\ ret.st = "returned"

\* C13: whenever orsPost fails on a response of the provider, the error
\* carries the status code and the message of that last response.
C13_ErrorEmbedsResponse ==
    (/\ call.fn = "orsPost"
     /\ ret.st = "thrown"
     /\ call.resps # <<>>
     /\ call.resps[Len(call.resps)].net) =>
        /\ Has(ret.error, "status")
        /\ ret.error.status = call.resps[Len(call.resps)].status
        /\ ret.error.msg = call.resps[Len(call.resps)].msg

\* The optional features an error message implicates
Implicated(msg) ==
    {f \in OptionalFeatures :
        CASE f = "suitability" -> msg \cap {"extra_info", "suitability"} # {}
          [] f = "profile_params" ->
                 msg \cap {"profile_params", "weightings", "options"} # {}
          [] f = "alternative_routes" -> "alternative_routes" \in msg}

\* The first of the features fs in the order suitability, profile_params,
\* alternative_routes
FirstInPriority(fs) ==
    IF "suitability" \in fs THEN "suitability"
    ELSE IF "profile_params" \in fs THEN "profile_params"
    ELSE "alternative_routes"

\* Request k+1 is request k less the feature d, which no later request has
DroppedForGood(k, d) ==
    /\ d \in CarriedFeatures(call.sent[k])
    /\ RemovedOne(call.sent[k], call.sent[k + 1], d)
    /\ \A j \in (k + 1)..Len(call.sent) :
          /\ d \notin CarriedFeatures(call.sent[j])
          /\ CarriedFeatures(call.sent[j]) \subseteq CarriedFeatures(call.sent[k])

\* C18 as stated: the feature dropped is the first, in priority order, of
\* the features the rejected request still carries.
C18_PriorityOfCarried ==
    call.fn = "orsPost" =>
        \A k \in 1..(Len(call.sent) - 1) :
            DroppedForGood(k, FirstInPriority(CarriedFeatures(call.sent[k])))

\* C18 amended: the feature dropped is the first, in priority order, of the
\* features that the rejected request still carries and that the error
\* message implicates; it is in no later request, and no later request has
\* a feature the rejected one had not.
C18_PriorityOfImplicated ==
    call.fn = "orsPost" =>
        \A k \in 1..(Len(call.sent) - 1) :
            /\ call.resps[k].status = 400
            /\ CarriedFeatures(call.sent[k]) \cap Implicated(call.resps[k].msg) # {}
            /\ DroppedForGood(k, FirstInPriority(CarriedFeatures(call.sent[k])
                                    \cap Implicated(call.resps[k].msg)))

\* C18 witness: a message implicating both option groups made the call drop
\* profile_params first and alternative_routes next
C18_Witness ==
    /\ call.fn = "orsPost"
    /\ Len(call.sent) = 3
    /\ call.resps[1].msg = {"options", "alternative_routes"}
    /\ call.resps[2].msg = {"options", "alternative_routes"}
    /\ CarriedFeatures(call.sent[3]) = {"suitability"}


----------------------------------------------------------------------------
(* Short paths, flat segments and the tier table.                          *)

\* C15: for a path of fewer than 2 points toRiskFC and getInsights return
\* null and riskScore is the sentinel 1e9.
C15_ShortPathNoResult ==
    call.fn = "shortPath" =>
        /\ Len(Coordinates(call.feature)) < 2
        /\ ret.fc = [null |-> TRUE]
        /\ ret.ins = [null |-> TRUE]
        /\ ret.score = 1000000000

\* C15 witness: a path of one point that carries a suitability range
C15_Witness ==
    /\ call.fn = "shortPath"
    /\ Len(Coordinates(call.feature)) = 1
    /\ ExtraValues(call.feature, "suitability") # <<>>
    /\ ret.score = 1000000000

\* All points of seg have the same longitude and latitude
OnePlace(seg) ==
    \A i, j \in 1..Len(seg) : seg[i][1] = seg[j][1] /\ seg[i][2] = seg[j][2]

\* C16: avgGrade of a segment whose points share longitude and latitude
\* is 0, whatever their elevations.
C16_FlatSegmentZero ==
    (call.fn = "avgGrade" /\ OnePlace(call.seg)) => ret = 0

\* C16 witness: two or more points at one place, 30 m apart in elevation
C16_Witness ==
    /\ call.fn = "avgGrade"
    /\ Len(call.seg) >= 2
    /\ OnePlace(call.seg)
    /\ \E i \in 2..Len(call.seg) : Ele(call.seg[i]) - Ele(call.seg[i - 1]) = 300
    /\ ret = 0

\* C17: with s the normalized suitability (tenths), g the grade (hundredths
\* of a percent) and c the surface code, the tier is high iff s <= 4, med
\* iff s > 4 and (s <= 7 or g >= 8 or c is rough), low otherwise.
C17_TierTable ==
    call.fn = "gradeRisk" =>
        LET s == IF call.a.suit > 10 THEN call.a.suit ELSE call.a.suit * 10
            g == call.a.avgPct
            rough == call.a.surf \in {2, 8, 10, 11, 12, 15, 17, 18}
            med == s > 40 /\ (s <= 70 \/ g >= 800 \/ rough)
        IN  /\ (ret.a.risk = "high") <=> (s <= 40)
            /\ (ret.a.risk = "med") <=> med
            /\ (ret.a.risk = "low") <=> (s > 40 /\ ~med)

\* C17 witness: suitability 0.3 on a steep, rough segment is high
C17_Witness ==
    /\ call.fn = "gradeRisk"
    /\ call.a = [suit |-> 3, surf |-> 10, avgPct |-> 900]
    /\ ret.a.risk = "high"


----------------------------------------------------------------------------
(* byDistinctness.                                                         *)

\* The indexes of arr whose signature does not occur earlier in arr
FirstOccurrences(arr) ==
    {i \in 1..Len(arr) :
        \A j \in 1..(i - 1) : routeSig(arr[j]) # routeSig(arr[i])}

\* The elements of arr at the indexes I, in the order of arr
SubsequenceAt(arr, I) ==
    [k \in 1..Cardinality(I) |->
        arr[CHOOSE i \in I : Cardinality({j \in I : j < i}) = k - 1]]

\* C19: byDistinctness(pool) is the subsequence of pool, in input order, of
\* the first occurrence of each signature; the output is pairwise
\* signature-distinct and byDistinctness leaves it unchanged.
C19_FirstOccurrences ==
    call.fn = "byDistinctness" =>
        /\ ret.out = SubsequenceAt(call.arr, FirstOccurrences(call.arr))
        /\ \A i, j \in 1..Len(ret.out) :
             i # j => routeSig(ret.out[i]) # routeSig(ret.out[j])
        /\ ret.again = ret.out

\* C19 witness: the third candidate repeats the signature of the first
\* under another preference and with other coordinates, and is discarded
C19_Witness ==
    /\ call.fn = "byDistinctness"
    /\ Len(call.arr) = 3
    /\ call.arr[1] # call.arr[3]
    /\ Coordinates(call.arr[1]) # Coordinates(call.arr[3])
    /\ routeSig(call.arr[1]) = routeSig(call.arr[3])
    /\ routeSig(call.arr[1]) # routeSig(call.arr[2])
    /\ ret.out = <<call.arr[1], call.arr[2]>>


----------------------------------------------------------------------------
(* The safest pick.                                                        *)

\* The candidates of the deduplicated pool that are not signature-equal to
\* the shortest route
DistinctFromShortest ==
    {sel.merged[k] : k \in {i \in 1..Len(sel.merged) :
                               ~isSameRoute(sel.merged[i], sel.shortest)}}

\* The entries of the returned list labeled "Safest"
SafestEntries == {i \in 1..Len(out) : LabelOf(out[i]) = "Safest"}

\* C20: when the deduplicated pool holds a candidate that is not
\* signature-equal to the shortest route, the entry labeled "Safest" is a
\* copy of such a candidate and no such candidate has a strictly lower
\* riskScore; when it holds none, safest is the shortest route and no entry
\* is labeled "Safest".
C20_SafestIsLowestRisk ==
    pc = "done" =>
        IF DistinctFromShortest # {}
        THEN /\ Cardinality(SafestEntries) = 1
             /\ sel.safest \in DistinctFromShortest
             /\ \A i \in SafestEntries :
                  out[i] = cloneAndLabel(sel.safest, "Safest", "safest")
             /\ \A c \in DistinctFromShortest :
                  riskScore(c) >= riskScore(sel.safest)
        ELSE /\ sel.safest = sel.shortest
             /\ SafestEntries = {}

\* C20 witness: the safest route is not the first candidate of the pool,
\* which has a strictly higher riskScore
C20_Witness ==
    /\ pc = "done"
    /\ Len(sel.candidates) >= 2
    /\ riskScore(sel.safest) < riskScore(sel.candidates[1])
    /\ LabelOf(out[2]) = "Safest"
    /\ isSameRoute(out[2], sel.safest)

\* C20 witness of the fallback: every candidate is the shortest route
C20_FallbackReached ==
    /\ pc = "done"
    /\ DistinctFromShortest = {}
    /\ Len(sel.merged) >= 1


----------------------------------------------------------------------------
(* route(): the component's routing handler.  ret holds the component's    *)
(* state (map, routes, activeRouteIdx, err, routing, originCoord,          *)
(* destCoord) and the invocations of route that await fetchThreeRoutes;    *)
(* call holds the last handler that ran and what it worked on.  originText *)
(* and destText are empty, so that no place is geocoded.  The Route button *)
(* is disabled while routing, but the handlers of a marker drag, a map     *)
(* click and a pin drop call route whenever they fire.                     *)

\* useState initial values; the map is set once the style has loaded
InitialState ==
    [map |-> FALSE, routes |-> <<>>, activeRouteIdx |-> 0, err |-> NullValue,
     routing |-> FALSE, originCoord |-> NullValue, destCoord |-> NullValue,
     pending |-> <<>>]

InitRoute ==
    /\ pc = "idle"
    /\ req = [f \in Fetches |-> NotStarted]
    /\ sel = NullValue
    /\ out = <<>>
    /\ err = "none"
    /\ env = [ORS_KEY |-> TRUE]
    /\ call = [fn |-> "none"]
    /\ ret = InitialState

\* A point lat micro-degrees north of the origin
North(lat) == [lng |-> 0, lat |-> lat]

\* overrides.origin and overrides.dest: absent, or a picked point.  71
\* micro-degrees are 7.89 m and 72 micro-degrees 8.01 m.
OriginInputs == {NullValue, Origin}
DestInputs == {NullValue, Origin, North(71), North(72), Dest}

\* a || b
OrElse(a, b) == IF IsNull(a) THEN b ELSE a

\* The same-point test with equality of the two points in place of the
\* distance
SamePointExact(o, d) == o = d

\* haversineMeters(o, d) < 8 (distances in decimetres)
SamePoint(o, d) == haversineMeters(o, d) < 80

\* A route of the provider from o to d by way of a point off micro-degrees
\* east of the middle (off = 0: the straight line)
RouteVia(o, d, off) ==
    LET Mid == [lng |-> (o.lng + d.lng) \div 2 + off, lat |-> (o.lat + d.lat) \div 2]
        Leg(m) == haversineMeters(o, m) + haversineMeters(m, d)
        Coords(m) == IF off = 0 THEN <<Pt(o.lng, o.lat, 0), Pt(d.lng, d.lat, 0)>>
                     ELSE <<Pt(o.lng, o.lat, 0), Pt(m.lng, m.lat, 0),
                            Pt(d.lng, d.lat, 0)>>
        Make(m) == Route(Coords(m), Leg(m), <<>>, <<>>, <<>>)
    IN  Make(Mid)

\* The requests that reach fetchThreeRoutes
Requests ==
    {q \in {Origin} \X {Origin, North(71), North(72), Dest} :
        ~SamePoint(q[1], q[2])}

\* What fetchThreeRoutes(o, d) may do once called: throw, or return the
\* designated routes from o to d
RouteResults ==
    [q \in Requests |->
        {[threw |-> TRUE, message |-> "No route (shortest)"]}
        \cup {[threw |-> FALSE,
               features |-> SelectThree(
                   TagPreference([features |-> <<RouteVia(q[1], q[2], 0)>>],
                                 "shortest"),
                   <<p, <<>>, <<>> >>).out] :
                p \in {<<>>,
                       TagPreference([features |-> <<RouteVia(q[1], q[2], 3000),
                                                     RouteVia(q[1], q[2], -6000)>>],
                                     "recommended")}}]

FetchOutcomes(o, d) == RouteResults[<<o, d>>]

\* m.on('load', ...): setMap(m)
MapLoads ==
    /\ ~ret.map
    /\ call' = [fn |-> "setMap"]
    /\ ret' = [ret EXCEPT !.map = TRUE]
    /\ UNCHANGED <<pc, req, sel, out, err, env>>

\* route(overrides) up to await fetchThreeRoutes(o, d), or to its return
RouteUntilFetch(ui, o, d) ==
    IF ~ui.map THEN ui
    ELSE IF IsNull(o) \/ IsNull(d)
    THEN [ui EXCEPT !.err = [message |-> "Enter origin and destination"],
                    !.routing = FALSE]
    ELSE IF SamePoint(o, d)
    THEN [ui EXCEPT !.err = [message |-> "Start and destination are the same point"],
                    !.routing = FALSE]
    ELSE [ui EXCEPT !.err = NullValue, !.routing = TRUE,
                    !.originCoord = o, !.destCoord = d,
                    !.pending = Append(ui.pending, [o |-> o, d |-> d])]

CallRoute ==
    /\ Len(ret.pending) < MaxInFlight
    /\ \E origin \in OriginInputs, dest \in DestInputs :
         LET o == OrElse(origin, ret.originCoord)
             d == OrElse(dest, ret.destCoord)
         IN  /\ ret' = RouteUntilFetch(ret, o, d)
             /\ call' = [fn |-> "route", o |-> o, d |-> d,
                         fetched |-> Len(ret'.pending) > Len(ret.pending)]
    /\ UNCHANGED <<pc, req, sel, out, err, env>>

\* route after await fetchThreeRoutes(o, d): the catch, or setRoutes and
\* setActiveRouteIdx(0); finally setRouting(false)
RouteAfterFetch(ui, r) ==
    IF r.threw
    THEN [ui EXCEPT !.err = [message |-> r.message], !.routing = FALSE]
    ELSE IF r.features = <<>>
    THEN [ui EXCEPT !.err = [message |-> "No route found"], !.routing = FALSE]
    ELSE [ui EXCEPT !.routes = r.features, !.activeRouteIdx = 0,
                    !.routing = FALSE]

\* s without its k-th element
RemoveAt(s, k) == SubSeq(s, 1, k - 1) \o SubSeq(s, k + 1, Len(s))

\* fetchThreeRoutes settles for one of the invocations that await it
FetchSettles ==
    /\ \E k \in 1..Len(ret.pending) :
         \E r \in FetchOutcomes(ret.pending[k].o, ret.pending[k].d) :
            /\ call' = [fn |-> "fetchThreeRoutes", threw |-> r.threw]
            /\ ret' = RouteAfterFetch([ret EXCEPT !.pending = RemoveAt(ret.pending, k)],
                                      r)
    /\ UNCHANGED <<pc, req, sel, out, err, env>>

\* A click on a route line or a route card: setActiveRouteIdx(idx)
SelectRoute ==
    /\ \E idx \in 0..(Len(ret.routes) - 1) :
         /\ call' = [fn |-> "selectRoute", idx |-> idx]
         /\ ret' = [ret EXCEPT !.activeRouteIdx = idx]
    /\ UNCHANGED <<pc, req, sel, out, err, env>>

NextRoute == MapLoads \/ CallRoute \/ FetchSettles \/ SelectRoute

SpecRoute == InitRoute /\ [][NextRoute]_vars

\* The step is a call of route with both points given, less than 8 m apart
RouteOnSamePoint ==
    /\ call'.fn = "route"
    /\ ~IsNull(call'.o) /\ ~IsNull(call'.d)
    /\ haversineMeters(call'.o, call'.d) < 80

\* route has failed as on invalid input: the error is shown, no request was
\* made of fetchThreeRoutes, routes and activeRouteIdx are as before
FailsWithoutRouting ==
    /\ ret'.err = [message |-> "Start and destination are the same point"]
    /\ ~call'.fetched
    /\ ret'.pending = ret.pending
    /\ ~ret'.routing
    /\ ret'.routes = ret.routes
    /\ ret'.activeRouteIdx = ret.activeRouteIdx

\* C14 as stated: whenever origin and destination are less than 8 m apart,
\* route() fails with the same-point error, makes no routing request and
\* leaves routes and activeRouteIdx unchanged.
C14_SamePointAlwaysFails ==
    [][RouteOnSamePoint => FailsWithoutRouting]_vars

\* C14: once the map is set, a call of route() with origin and destination
\* less than 8 m apart fails with the same-point error, makes no routing
\* request and leaves routes and activeRouteIdx unchanged; before the map
\* is set route() returns at once and changes nothing, the error included.
C14_SamePointFailsOnceMapSet ==
    [][RouteOnSamePoint =>
         IF ret.map THEN FailsWithoutRouting ELSE ret' = ret /\ ~call'.fetched]_vars

\* C14 witness: with three routes shown and the second one active, route()
\* was called on two different points 7.89 m apart and failed
C14_Witness ==
    /\ call.fn = "route"
    /\ call.o = Origin /\ call.d = North(71)
    /\ ret.err = [message |-> "Start and destination are the same point"]
    /\ Len(ret.routes) = 3
    /\ ret.activeRouteIdx = 1


----------------------------------------------------------------------------
(* Object identity in fetchThreeRoutes.  A heap is a sequence of cells and *)
(* a reference is an index into it; 0 stands for undefined.  A feature is  *)
(* a cell that refers to its geometry cell and its properties cell.  call  *)
(* holds the heap and the pools of references fetchThreeRoutes works on,   *)
(* ret the heap afterwards and the references returned.                    *)

\* The feature the reference r stands for, as a value
Val(h, r) ==
    [type |-> h[r].type,
     geometry |-> h[h[r].geometry],
     properties |-> h[h[r].properties]]

\* The cells reachable from the feature r
Reach(h, r) == {r, h[r].geometry, h[r].properties}

\* await res.json(): the objects of one parsed feature, appended to the heap
ParseFeature(h, f) ==
    h \o <<f.geometry, f.properties,
           [type |-> f.type, geometry |-> Len(h) + 1, properties |-> Len(h) + 2]>>

\* f.properties = { ...(f.properties || {}), _preference: preference }
SetPreference(h, r, preference) ==
    [Append(h, With(h[h[r].properties], "_preference", preference))
        EXCEPT ![r].properties = Len(h) + 1]

\* fetchORSWithAlts on a heap: the features of the response are parsed and
\* tagged; the result is the heap and the references of the pool
FetchOnHeap(h, feats, preference) ==
    LET F[i \in 0..Len(feats)] ==
            IF i = 0 THEN [heap |-> h, refs |-> <<>>]
            ELSE LET prev == F[i - 1]
                     r == Len(prev.heap) + 3
                 IN  [heap |-> SetPreference(ParseFeature(prev.heap, feats[i]),
                                             r, preference),
                      refs |-> Append(prev.refs, r)]
    IN  F[Len(feats)]

\* cloneAndLabel that writes the label and the tag into f itself
labelInPlace(h, f, label, tag) ==
    [heap |-> [Append(h, With(With(h[h[f].properties], "_label", label),
                              "_tag", tag))
                  EXCEPT ![f].properties = Len(h) + 1],
     ref |-> f]

\* cloneAndLabel(f, _label, _tag) on a heap: JSON.parse allocates the
\* clone's geometry, properties and feature; the assignment to c.properties
\* allocates the labeled properties
cloneAndLabelAt(h, f, label, tag) ==
    LET Labeled(c) ==
            [heap |-> [Append(ParseFeature(h, c),
                              With(With(Properties(c), "_label", label),
                                   "_tag", tag))
                          EXCEPT ![Len(h) + 3].properties = Len(h) + 4],
             ref |-> Len(h) + 3]
    IN  Labeled(JsonClone(Val(h, f)))

isSameRouteAt(h, a, b) == isSameRoute(Val(h, a), Val(h, b))

PickShortestAt(h, pool) ==
    SortCmp(pool, LAMBDA a, b : distanceOf(Val(h, a)) - distanceOf(Val(h, b)))[1]

byDistinctnessAt(h, arr) ==
    LET B[i \in 0..Len(arr)] ==
            IF i = 0 THEN [seen |-> {}, out |-> <<>>]
            ELSE LET prev == B[i - 1]
                     sig == routeSig(Val(h, arr[i]))
                 IN  IF sig \notin prev.seen
                     THEN [seen |-> prev.seen \cup {sig},
                           out |-> Append(prev.out, arr[i])]
                     ELSE prev
    IN  B[Len(arr)].out

DropShortestAt(h, cands, shortest) ==
    Filter(cands, LAMBDA f : ~isSameRouteAt(h, f, shortest))

PickSafestAt(h, candidates, shortest) ==
    LET FirstOr(found, other) == IF found = <<>> THEN other ELSE found[1]
    IN  FirstOr(Filter(SortCmp(candidates,
                               LAMBDA a, b : riskScore(Val(h, a))
                                             - riskScore(Val(h, b))),
                       LAMBDA f : ~isSameRouteAt(h, f, shortest)),
                shortest)

PickScenicAt(h, candidates, shortest, safest) ==
    LET First(sorted) == IF sorted = <<>> THEN 0 ELSE sorted[1]
        Pick(scenic, again) ==
            IF scenic = 0 THEN again
            ELSE IF isSameRouteAt(h, scenic, shortest)
                    \/ isSameRouteAt(h, scenic, safest)
            THEN again ELSE scenic
    IN  Pick(First(SortCmp(Filter(candidates,
                                  LAMBDA f : ~isSameRouteAt(h, f, safest)),
                           LAMBDA a, b : distanceOf(Val(h, b))
                                         - distanceOf(Val(h, a)))),
             First(SortCmp(Filter(candidates,
                                  LAMBDA f : ~isSameRouteAt(h, f, shortest)
                                             /\ ~isSameRouteAt(h, f, safest)),
                           LAMBDA a, b :
                               LET dl == distanceOf(Val(h, b)) - distanceOf(Val(h, a))
                               IN  IF Abs(dl) > 10 THEN dl
                                   ELSE riskScore(Val(h, a))
                                        - riskScore(Val(h, b)))))

\* pushUnique(f, label, tag): st is the heap and the list out
pushUniqueAt(st, f, label, tag) ==
    LET Push(c) == [heap |-> c.heap, out |-> Append(st.out, c.ref)]
    IN  IF f = 0 THEN st
        ELSE IF \E i \in 1..Len(st.out) : isSameRouteAt(st.heap, st.out[i], f)
        THEN st
        ELSE Push(cloneAndLabelAt(st.heap, f, label, tag))

BackfillAt(st, candidates) ==
    LET B[i \in 0..Len(candidates)] ==
            IF i = 0 THEN st
            ELSE LET prev == B[i - 1]
                 IN  IF Len(prev.out) >= 3 THEN prev
                     ELSE pushUniqueAt(prev, candidates[i], "Alternate", "alt")
    IN  B[Len(candidates)]

LastResortAt(st, shortest) ==
    IF Len(st.out) < 3 THEN pushUniqueAt(st, shortest, "Alternate", "alt") ELSE st

\* Step 5 of fetchThreeRoutes on the heap h
AssembleAt(h, shortest, safest, scenic, candidates) ==
    LET PushScenic(st) ==
            IF scenic # 0 /\ ~isSameRouteAt(h, scenic, shortest)
               /\ ~isSameRouteAt(h, scenic, safest)
            THEN pushUniqueAt(st, scenic,
                              ScenicLabel(Val(h, scenic),
                                          distanceOf(Val(h, shortest))), "long")
            ELSE st
        FirstThree(st) ==
            [heap |-> st.heap, out |-> SubSeq(st.out, 1, Min(3, Len(st.out)))]
    IN  FirstThree(
          LastResortAt(
            BackfillAt(
              PushScenic(
                pushUniqueAt(pushUniqueAt([heap |-> h, out |-> <<>>],
                                          shortest, "Shortest", "shortest"),
                             safest, "Safest", "safest")),
              candidates),
            shortest))

\* fetchThreeRoutes once all pools have settled, on the heap h; pool and
\* pools hold references
SelectThreeAt(h, pool, pools) ==
    LET Step4(shortest, candidates, safest) ==
            AssembleAt(h, shortest, safest,
                       PickScenicAt(h, candidates, shortest, safest), candidates)
        Step3(shortest, candidates) ==
            Step4(shortest, candidates, PickSafestAt(h, candidates, shortest))
        Step2(shortest) ==
            Step3(shortest,
                  DropShortestAt(h, byDistinctnessAt(h, Flat(pools) \o pool),
                                 shortest))
    IN  Step2(PickShortestAt(h, pool))

\* The responses of the four requests
ShortestResponses ==
    SeqsUpTo({RouteDirect, RouteDirectAgain}, 2) \ {<<>>}
RecommendedResponses == SeqsUpTo({RouteDirect, RouteSafe, RouteLong}, 2)
SecondResponses == {<<>>, <<RouteSafe>>}
FastestResponses == {<<>>, <<RouteHilly>>, <<RouteDirect>>}

\* The heap and the pools after the four fetches
FetchAll(s, a, b, c) ==
    LET P4(fs, fa, fb, fc) ==
            [heap |-> fc.heap, pool |-> fs.refs,
             pools |-> <<fa.refs, fb.refs, fc.refs>>]
        P3(fs, fa, fb) == P4(fs, fa, fb, FetchOnHeap(fb.heap, c, "fastest"))
        P2(fs, fa) == P3(fs, fa, FetchOnHeap(fa.heap, b, "recommended"))
        P1(fs) == P2(fs, FetchOnHeap(fs.heap, a, "recommended"))
    IN  P1(FetchOnHeap(<<>>, s, "shortest"))

CallOnHeap ==
    /\ Calling("fetchThreeRoutes")
    /\ \E s \in ShortestResponses, a \in RecommendedResponses,
          b \in SecondResponses, c \in FastestResponses :
         /\ call' = With(FetchAll(s, a, b, c), "fn", "fetchThreeRoutes")
         /\ ret' = SelectThreeAt(call'.heap, call'.pool, call'.pools)

NextHeap == CallOnHeap

SpecHeap == InitCalls /\ [][NextHeap]_vars

\* The references of all candidates in the pools
PoolRefs == {call.pool[i] : i \in 1..Len(call.pool)}
            \cup UNION {{call.pools[k][i] : i \in 1..Len(call.pools[k])} :
                          k \in 1..Len(call.pools)}

\* The cells that existed when the pools had settled
ProviderCells == 1..Len(call.heap)

\* C11: fetchThreeRoutes attaches no label or tag to a provider-returned
\* object: every returned entry is a fresh deep copy (none of its objects
\* existed before), no two returned entries share an object, every object
\* of the provider is as it was, and the candidates in the pools carry no
\* _label and no _tag.  The entries are those of the selection by value.
C11_FreshCopies ==
    call.fn = "fetchThreeRoutes" =>
        /\ \A i \in 1..Len(ret.out) :
             Reach(ret.heap, ret.out[i]) \cap ProviderCells = {}
        /\ \A i, j \in 1..Len(ret.out) :
             i # j => Reach(ret.heap, ret.out[i])
                        \cap Reach(ret.heap, ret.out[j]) = {}
        /\ \A r \in ProviderCells : ret.heap[r] = call.heap[r]
        /\ \A r \in PoolRefs :
             /\ ~Has(Val(ret.heap, r).properties, "_label")
             /\ ~Has(Val(ret.heap, r).properties, "_tag")
        /\ [i \in 1..Len(ret.out) |-> Val(ret.heap, ret.out[i])]
             = SelectThree([i \in 1..Len(call.pool) |-> Val(call.heap, call.pool[i])],
                           [k \in 1..Len(call.pools) |->
                              [i \in 1..Len(call.pools[k]) |->
                                 Val(call.heap, call.pools[k][i])]]).out

\* C11 witness: three entries were returned; each is the labeled copy of a
\* candidate of the pools, which itself has no label, and one route was
\* returned by two of the requests
C11_Witness ==
    /\ call.fn = "fetchThreeRoutes"
    /\ Len(ret.out) = 3
    /\ \A i \in 1..3 :
         \E r \in PoolRefs :
            /\ Val(ret.heap, ret.out[i]).geometry = Val(ret.heap, r).geometry
            /\ Has(Val(ret.heap, ret.out[i]).properties, "_label")
            /\ ~Has(Val(ret.heap, r).properties, "_label")
    /\ \E r, q \in PoolRefs : r # q /\ Val(call.heap, r) = Val(call.heap, q)

----------------------------------------------------------------------------
(* The scenic pick.                                                        *)

\* The candidates that are signature-equal neither to the shortest nor to
\* the safest route
Remaining ==
    {sel.candidates[k] : k \in {i \in 1..Len(sel.candidates) :
        /\ ~isSameRoute(sel.candidates[i], sel.shortest)
        /\ ~isSameRoute(sel.candidates[i], sel.safest)}}

\* The entries of the returned list tagged as the scenic pick
ScenicEntries == {i \in 1..Len(out) : TagOf(out[i]) = "long"}

\* C21: the scenic pick is the remaining candidate (distinct from shortest
\* and safest) of greatest distance; its entry in the returned list is
\* labeled "Long & Scenic" exactly when its distance is at least 1.25 times
\* that of the shortest route and "Alternate" otherwise.  When no candidate
\* remains there is no scenic pick and no such entry.
C21_ScenicIsLongest ==
    pc = "done" =>
        IF Remaining # {}
        THEN /\ sel.scenic \in Remaining
             /\ \A c \in Remaining : distanceOf(c) <= distanceOf(sel.scenic)
             /\ Cardinality(ScenicEntries) = 1
             /\ \A i \in ScenicEntries :
                  /\ isSameRoute(out[i], sel.scenic)
                  /\ Coordinates(out[i]) = Coordinates(sel.scenic)
                  /\ LabelOf(out[i]) \in {"Long & Scenic", "Alternate"}
                  /\ (LabelOf(out[i]) = "Long & Scenic")
                       <=> (4 * distanceOf(sel.scenic) >= 5 * distanceOf(sel.shortest))
        ELSE /\ IsNull(sel.scenic)
             /\ ScenicEntries = {}

\* C21 witness: of two remaining candidates the longer one was picked, and
\* it is less than 1.25 times as long as the shortest route
C21_Witness ==
    /\ pc = "done"
    /\ Cardinality(Remaining) >= 2
    /\ \E c \in Remaining : distanceOf(c) < distanceOf(sel.scenic)
    /\ \E i \in ScenicEntries : LabelOf(out[i]) = "Alternate"

\* C21 witness of the other label: the scenic pick is 1.25 times as long
C21_LongReached ==
    /\ pc = "done"
    /\ \E i \in ScenicEntries : LabelOf(out[i]) = "Long & Scenic"


----------------------------------------------------------------------------
(* Paths without attribute data.                                           *)

\* The feature has no range of any attribute kind
NoRanges(feature) ==
    /\ ExtraValues(feature, "suitability") = <<>>
    /\ ExtraValues(feature, "surface") = <<>>
    /\ ExtraValues(feature, "waytype") = <<>>

\* C22: for a path of at least 2 points without attribute ranges of any
\* kind toRiskFC produces exactly one segment, which covers [0, len-1].
C22_OneSegmentWithoutRanges ==
    (call.fn = "toRiskFC" /\ NoRanges(call.feature)) =>
        /\ Len(ret.features) = 1
        /\ ret.features[1].properties.sIndex = 0
        /\ ret.features[1].properties.eIndex = Len(Coordinates(call.feature)) - 1
        /\ ret.features[1].geometry.coordinates = Coordinates(call.feature)

\* C22 witness: a path of three points whose feature has no properties
C22_Witness ==
    /\ call.fn = "toRiskFC"
    /\ ~Has(call.feature, "properties")
    /\ Len(Coordinates(call.feature)) = 3
    /\ Len(ret.features) = 1
    /\ ret.features[1].properties.eIndex = 2


----------------------------------------------------------------------------
(* getInsights.                                                            *)

\* C23: for a path of n >= 2 points getInsights returns a distance series
\* and an elevation series of n values each; the distance series starts at
\* 0, never decreases, and ends at the total distance.
C23_SeriesPerPoint ==
    call.fn = "getInsights" =>
        LET n == Len(Coordinates(call.feature))
        IN  /\ Len(ret.distKm) = n
            /\ Len(ret.elevM) = n
            /\ ret.distKm[1] = 0
            /\ \A i \in 2..n : ret.distKm[i - 1] <= ret.distKm[i]
            /\ ret.distKm[n] = ret.totalDistM

\* C23 witness: a path that goes out and comes back, with a repeated point
C23_Witness ==
    /\ call.fn = "getInsights"
    /\ Len(Coordinates(call.feature)) = 3
    /\ Coordinates(call.feature)[1] = Coordinates(call.feature)[3]
    /\ ret.distKm[2] > 0
    /\ ret.distKm[3] = 2 * ret.distKm[2]

\* C29: for a path of at least 2 points ascentM - descentM is the elevation
\* of the last point minus that of the first (a missing elevation counts as
\* 0), and neither is negative.
C29_AscentMinusDescent ==
    call.fn = "getInsights" =>
        LET c == Coordinates(call.feature)
        IN  /\ ret.ascentM - ret.descentM = Ele(c[Len(c)]) - Ele(c[1])
            /\ ret.ascentM >= 0
            /\ ret.descentM >= 0

\* C29 witness: a climb of 30 m followed by a descent to a point without
\* elevation
C29_Witness ==
    /\ call.fn = "getInsights"
    /\ Len(Coordinates(call.feature)) = 3
    /\ Len(Coordinates(call.feature)[3]) = 2
    /\ ret.ascentM = 300
    /\ ret.descentM = 300


----------------------------------------------------------------------------
(* The attribute values of a segment.                                      *)

\* ranges are contiguous over a path of n points: each spans at least one
\* edge, the first starts at 0, each next one starts at the index where the
\* previous one ends, the last ends at n - 1 (an empty list is contiguous)
Contiguous(ranges, n) ==
    \/ ranges = <<>>
    \/ /\ ranges[1][1] = 0
       /\ ranges[Len(ranges)][2] = n - 1
       /\ \A k \in 1..Len(ranges) : ranges[k][1] < ranges[k][2]
       /\ \A k \in 1..(Len(ranges) - 1) : ranges[k][2] = ranges[k + 1][1]

\* The values of the ranges that cover [s, e], or the fallback
CoveringValues(ranges, s, e, fallback) ==
    IF ranges = <<>> THEN {fallback}
    ELSE {ranges[k][3] : k \in {j \in 1..Len(ranges) :
                                   ranges[j][1] <= s /\ e <= ranges[j][2]}}

C26_BoundaryTakesPrevious ==
    /\ call.fn = "toRiskFC"
    /\ ExtraValues(call.feature, "suitability") = << <<0, 1, 30>>, <<1, 2, 80>> >>
    /\ Len(ret.features) = 2
    /\ ret.features[2].properties.sIndex = 1
    /\ ret.features[2].properties.eIndex = 2
    /\ ret.features[2].properties.suit = 30
    /\ ret.features[2].properties.risk = "high"


----------------------------------------------------------------------------
(* The requests of one orsPost call.                                       *)

\* C30: within one orsPost call the sets of optional features of the
\* requests sent decrease strictly, no request without any of the three
\* optional features is sent, and after a third recoverable rejection the
\* call throws 'ORS failed after retries' with three requests sent.
C30_NeverFullyDegraded ==
    call.fn = "orsPost" =>
        /\ \A k \in 1..(Len(call.sent) - 1) :
             /\ CarriedFeatures(call.sent[k + 1]) \subseteq CarriedFeatures(call.sent[k])
             /\ CarriedFeatures(call.sent[k + 1]) # CarriedFeatures(call.sent[k])
        /\ \A k \in 1..Len(call.sent) : CarriedFeatures(call.sent[k]) # {}
        /\ (/\ Len(call.resps) >= 3
            /\ \A k \in 1..3 : /\ call.resps[k].net
                               /\ ~call.resps[k].ok
                               /\ Recoverable(call.sent[k], call.resps[k])) =>
               /\ Len(call.sent) = 3
               /\ Len(call.resps) = 3
               /\ ret = Thrown([message |-> "ORS failed after retries"])

\* C30 witness: three recoverable rejections, the third of a request that
\* carries one optional feature
C30_Witness ==
    /\ call.fn = "orsPost"
    /\ Len(call.resps) = 3
    /\ \A k \in 1..3 : /\ call.resps[k].net
                       /\ ~call.resps[k].ok
                       /\ Recoverable(call.sent[k], call.resps[k])
    /\ Cardinality(CarriedFeatures(call.sent[3])) = 1
    /\ ret.st = "thrown"


----------------------------------------------------------------------------
(* The size of the returned list.                                          *)

\* The signatures, among everything the four fetches returned, of the
\* routes that are not signature-equal to the shortest route
DistinctSignatures ==
    {routeSig(AllReturned[i]) : i \in {j \in 1..Len(AllReturned) :
        ~isSameRoute(AllReturned[j], sel.shortest)}}

----------------------------------------------------------------------------
(* The distance of the entry labeled "Shortest".                           *)

C28_ShorterRouteReturned ==
    /\ pc = "done"
    /\ LabelOf(out[1]) = "Shortest"
    /\ \E g \in Optional : \E k \in 1..Len(req[g].pool) :
         /\ \A m \in 1..Len(req[Mandatory].pool) :
              distanceOf(req[g].pool[k]) < distanceOf(req[Mandatory].pool[m])
         /\ \E j \in 2..Len(out) :
              /\ isSameRoute(out[j], req[g].pool[k])
              /\ distanceOf(out[j]) < distanceOf(out[1])


----------------------------------------------------------------------------
(* The order in which the three optional fetches settle.  call holds the   *)
(* responses of the four requests (the pools that fetchORSWithAlts makes   *)
(* of them), the optional fetches that have settled so far, in the order   *)
(* of their settling, and the list returned by an earlier call with the    *)
(* same responses; ret holds the state of the call and its list.           *)

\* Promise.all that delivers the pools in the order of their settling
PromiseAllAsSettled(responses, settled) ==
    [i \in 1..Len(settled) |-> responses[settled[i]]]

\* await Promise.all([...]): the pools in the order of the calls
PromiseAll(responses, settled) ==
    [i \in 1..Len(PoolOrder) |-> responses[PoolOrder[i]]]

\* The pool fetchORSWithAlts makes of a response to fetch f
PoolOfResponse(f, feats) ==
    TagPreference([features |-> feats], FetchArgs(f).preference)

\* The responses drawn: a failed or empty one, and routes that two requests
\* return alike or with differences below the rounding of routeSig
OrderResponses(f) ==
    IF f = Mandatory THEN {<<RouteSafe>>, <<RouteDirect, RouteSafe>>}
    ELSE IF f = "recommendedA" THEN {<<>>, <<RouteDirect>>, <<RouteLong>>}
    ELSE IF f = "recommendedB" THEN {<<>>, <<RouteDirectAgain>>, <<RouteHilly>>}
    ELSE {<<>>, <<RouteDirect>>, <<RouteLong>>}

CallWithResponses ==
    /\ Calling("fetchThreeRoutes")
    /\ \E s \in OrderResponses(Mandatory), a \in OrderResponses("recommendedA"),
          b \in OrderResponses("recommendedB"), c \in OrderResponses("fastest") :
         call' = [fn |-> "fetchThreeRoutes",
                  pool |-> PoolOfResponse(Mandatory, s),
                  responses |-> [g \in Optional |->
                      PoolOfResponse(g, CASE g = "recommendedA" -> a
                                          [] g = "recommendedB" -> b
                                          [] g = "fastest" -> c)],
                  settled |-> <<>>,
                  earlier |-> <<>>]
    /\ ret' = [st |-> "pending", out |-> <<>>]

\* One of the three optional fetches settles
PoolSettles ==
    /\ call.fn = "fetchThreeRoutes"
    /\ ret.st = "pending"
    /\ \E g \in Optional :
         /\ \A i \in 1..Len(call.settled) : call.settled[i] # g
         /\ call' = [call EXCEPT !.settled = Append(call.settled, g)]
    /\ UNCHANGED <<pc, req, sel, out, err, env, ret>>

\* Promise.all resolves: the pools are merged and the selection is made
PoolsMerged ==
    /\ call.fn = "fetchThreeRoutes"
    /\ ret.st = "pending"
    /\ Len(call.settled) = Cardinality(Optional)
    /\ ret' = [st |-> "done",
               out |-> SelectThree(call.pool,
                                   PromiseAll(call.responses, call.settled)).out]
    /\ UNCHANGED <<pc, req, sel, out, err, env, call>>

\* fetchThreeRoutes is called again and gets the same responses
CallAgain ==
    /\ call.fn = "fetchThreeRoutes"
    /\ ret.st = "done"
    /\ call.earlier = <<>>
    /\ call' = [call EXCEPT !.settled = <<>>, !.earlier = ret.out]
    /\ ret' = [st |-> "pending", out |-> <<>>]
    /\ UNCHANGED <<pc, req, sel, out, err, env>>

NextOrder == CallWithResponses \/ PoolSettles \/ PoolsMerged \/ CallAgain

SpecOrder == InitCalls /\ [][NextOrder]_vars

----------------------------------------------------------------------------
(* Overlapping invocations of route().                                     *)

\* The first and the last point of a route
EndsOf(feature) ==
    LET c == Coordinates(feature)
    IN  <<[lng |-> c[1][1], lat |-> c[1][2]],
          [lng |-> c[Len(c)][1], lat |-> c[Len(c)][2]]>>

\* C24: when route() was invoked again while an earlier invocation was in
\* flight, the routes displayed in the end are those of the request issued
\* last (the one whose points are originCoord and destCoord), in whatever
\* order the two selections complete.
C24_LatestRequestWins ==
    (/\ call.fn # "none"
     /\ ret.pending = <<>>
     /\ IsNull(ret.err)
     /\ ret.routes # <<>>) =>
        \A i \in 1..Len(ret.routes) :
            EndsOf(ret.routes[i]) = <<ret.originCoord, ret.destCoord>>

\* The selection of the older request completed last and its routes are
\* displayed, although none of them ends at the destination set last
C24_OlderRequestShown ==
    /\ call.fn = "fetchThreeRoutes"
    /\ ret.pending = <<>>
    /\ IsNull(ret.err)
    /\ Len(ret.routes) = 3
    /\ \A i \in 1..3 : EndsOf(ret.routes[i])[2] # ret.destCoord

====
